---------------------------- MODULE Spec2Model ----------------------------
(***************************************************************************)
(* A model of the payment dispatch pipeline of rinha-2025: the worker      *)
(* pool (receiver, per-worker queues, health monitor, retry scheduler,     *)
(* store channel) of src/worker, the publisher pool of src/gateway and the *)
(* pure functions they use.                                                *)
(*                                                                         *)
(* Time is the tokio Instant in whole milliseconds since start.  A Payment *)
(* keeps amount, correlation_id and processor; its requested_at stamp is   *)
(* not read by any operation modelled here and is left out.                *)
(***************************************************************************)
EXTENDS Integers, Sequences, FiniteSets, Bags, TLC

(***************************************************************************)
(* Bounds of the model.  The three capacities are the program's            *)
(* BUFFER_SIZE (32768), the store channel's 16 * 1024 and the number of    *)
(* workers from NUM_WORKERS, scaled down so that a full queue is a         *)
(* reachable state.                                                        *)
(***************************************************************************)
NumMsgs == 3

NumLoadMsgs == 5

NumWorkers == 2

NumThreads == 2

NumConns == 1

BUFFER_SIZE == 2

STORE_CHANNEL_SIZE == 1

MaxTime == 2300

DeepMaxTime == 120000

LiveMaxTime == 7000

LoadMaxTime == 1200

MaxRetryCount == 60

MAX_CONNS == 2

NumPublishes == 3

NumRequests == 3

NumBackends == 2

NumQueries == 2

NumStreams == 3

NumFrames == 2

(* Semaphore::new(512), receiver.rs:35, scaled down so that it runs out. *)
CONN_PERMITS == 2

(***************************************************************************)
(* Program constants, src/worker/src/worker_pool.rs:40-43 and              *)
(* src/worker/src/health_monitor.rs:31.  JITTER_FRACTION = 0.2 is kept as  *)
(* the fraction JITTER_NUM / JITTER_DEN.                                   *)
(***************************************************************************)
MAX_RETRIES == 50

BASE_BACKOFF_MS == 500

MAX_BACKOFF_MS == 2000

JITTER_NUM == 2

JITTER_DEN == 10

MAX_ACCEPTABLE_RESPONSE_TIME == 50

(* Publisher::new opens up to min(max_conns, 5) connections, publisher.rs:42. *)
INITIAL_CONNS == 5

(* The payments a run may post; a specification posts those of env.msgs. *)
Msgs == 1 .. NumLoadMsgs

Workers == 0 .. (NumWorkers - 1)

Threads == 1 .. NumThreads

Conns == 1 .. NumConns

Publishes == 1 .. NumPublishes

Requests == 1 .. NumRequests

Backends == 0 .. (NumBackends - 1)

Queries == 1 .. NumQueries

Streams == 1 .. NumStreams

ProcessorType == {"Default", "Fallback"}

NoMsg == [correlation_id |-> 0, amount |-> 0, retry_count |-> 0]

NoWork == [msg |-> NoMsg, processor |-> "None"]

(* retry_count values a frame may carry on the wire (serde default 0). *)
WireRetryCounts == {0, 49, 50, 51}

FrameKinds == {"msg", "garbage", "empty"}

(* HTTP outcomes of a processor call; 0 stands for a transport failure. *)
StatusCodes == {0, 200, 422, 500}

Amount(i) == 10 * i

Min(a, b) == IF a < b THEN a ELSE b

Max(a, b) == IF a > b THEN a ELSE b

VARIABLES
    env,          \* the run's environment: the requests clients may send
                  \* (msgs, wire) and how long the run is observed (horizon)
    posted,       \* posted[i]: POST /payments for message i was answered 202
    sock,         \* sock[c]: frames written to connection c and not yet read
    queues,       \* queues[w]: the inbound channel of worker w
    cur,          \* cur[w]: the processor call worker w awaits, or NoWork
    counter,      \* counter[t]: the thread-local COUNTER of submit_internal
    retry_chan,   \* the scheduler's inbound channel of RetryItems
    heap,         \* the scheduler's BinaryHeap<RetryItem>
    sched_pc,     \* where retry_loop is: "top", "drain" or "select"
    sched_now,    \* the `now` retry_loop read at the top of its iteration
    now,          \* the clock
    healths,      \* the health map of the HealthMonitor
    store_chan,   \* the store's channel of Payments
    db,           \* the rows of table payments, a bag
    wire_rc,      \* wire_rc[i]: the retry_count message i was submitted with
    entered,      \* entered[i]: message i was put into a worker queue
    attempts,     \* attempts[i]: process_message calls made for message i
    retries,      \* retries[i]: RetryItems built by retry() for message i
    pushed,       \* pushed[i]: Payments of message i sent on the store channel
    fate,         \* fate[i]: the terminal events of message i, in order
    calc,         \* a call of calc_backoff: its argument and, once made, its result
    selection,    \* a call of next_processor: the health map and, once made, its result
    classified,   \* a call of process: what the request met and, once made, its result
    conn_pool,    \* Publisher: the idle connections in the channel conn_pool
    pool_size,    \* Publisher: the AtomicUsize pool_size
    recv_lock,    \* Publisher: the task holding the Mutex of conn_receiver, or 0
    pub,          \* pub[p]: where call p of Publisher::publish is, and its connection
    conns,        \* the connections dialled so far and the ones closed or dropped
    replacing,    \* the replace() tasks spawned: about to dial, about to fetch_add
    lb_index,     \* UnixLoadBalancer: the AtomicUsize current_index
    lb_req,       \* lb_req[r]: request r at the ingress: where proxy_service is,
                  \* the backends selected and contacted, the answers
    dbh,          \* dbh[h]: call h of the summary or the purge handler
    probed,       \* history: the last probe try_update_health made, if env.probes
    popped,       \* history: the next_attempts popped in this drain, if env.observe
    buffer,       \* insert_loop: its local buffer
    store_pc,     \* insert_loop: where it is - "drain", "write" or "sleep"
    handed,       \* history: the rows handed to insert_payment and batch_payments
    conn_sem,     \* Receiver: the permits conn_sem has left
    stream        \* stream[s]: connection s to the receive socket - where its
                  \* task is, the frames written to it and read from it

vars == <<env, posted, sock, queues, cur, counter, retry_chan, heap, sched_pc,
          sched_now, now, healths, store_chan, db, wire_rc, entered,
          attempts, retries, pushed, fate, calc, selection, classified, conn_pool, pool_size,
          recv_lock, pub, conns, replacing, lb_index, lb_req, dbh, probed, popped,
          buffer, store_pc, handed, conn_sem, stream>>

pubVars == <<conn_pool, pool_size, recv_lock, pub, conns, replacing>>

(* What the tasks of the worker leave alone. *)
storeVars == <<buffer, store_pc, handed>>

acceptVars == <<conn_sem, stream>>

schedRest == <<env, calc, selection, classified, pubVars, lb_index, lb_req, dbh, probed,
               storeVars, acceptVars>>

restVars == <<schedRest, popped>>

poolVars == <<queues, cur, counter, retry_chan, heap, sched_pc, sched_now>>

historyVars == <<wire_rc, entered, attempts, retries, pushed, fate>>

----------------------------------------------------------------------------
WorkerChannelSize_Whole == BUFFER_SIZE

(* WorkerPool::start: each worker's channel holds BUFFER_SIZE / num_workers. *)
WorkerChannelSize == BUFFER_SIZE \div NumWorkers

RetryChannelSize == BUFFER_SIZE

(***************************************************************************)
(* calc_backoff.  retry_count is a u32 and the pseudo-random term is       *)
(* computed with wrapping u32 arithmetic; a u32 is kept here as two 16-bit *)
(* limbs so that no intermediate value leaves the range of the checker's   *)
(* integers.                                                               *)
(***************************************************************************)
Pow2(n) == IF n = 0 THEN 1 ELSE
           IF n = 1 THEN 2 ELSE
           IF n = 2 THEN 4 ELSE
           IF n = 3 THEN 8 ELSE
           IF n = 4 THEN 16 ELSE
           IF n = 5 THEN 32 ELSE
           IF n = 6 THEN 64 ELSE
           IF n = 7 THEN 128 ELSE
           IF n = 8 THEN 256 ELSE
           IF n = 9 THEN 512 ELSE 1024

LIMB == 65536

MUL_HI == 16838

MUL_LO == 20077

ADD_C == 12345

(* retry_count.wrapping_mul(1103515245).wrapping_add(12345), as <<hi, lo>> *)
Pseudo(retry_count) ==
    LET kHi == retry_count \div LIMB
        kLo == retry_count % LIMB
        p0  == kLo * MUL_LO
        mLo == p0 % LIMB
        mHi == (kLo * MUL_HI + ((kHi * MUL_LO) % LIMB) + (p0 \div LIMB)) % LIMB
        s0  == mLo + ADD_C
    IN  <<(mHi + (s0 \div LIMB)) % LIMB, s0 % LIMB>>

(* (pseudo as u64) % m for a modulus m < 2^15 *)
PseudoMod(p, m) == (((p[1] % m) * (LIMB % m)) + (p[2] % m)) % m

BackoffDelay_Uncapped(retry_count) ==
    BASE_BACKOFF_MS * Pow2(Min(retry_count, 10))

BackoffDelay(retry_count) ==
    Min(BASE_BACKOFF_MS * Pow2(Min(retry_count, 10)), MAX_BACKOFF_MS)

JitterRange(delay) == (delay * JITTER_NUM) \div JITTER_DEN

calc_backoff(retry_count) ==
    LET delay        == BackoffDelay(retry_count)
        jitter_range == JitterRange(delay)
        jitter       == PseudoMod(Pseudo(retry_count), Max(2 * jitter_range, 1))
    IN  Max(delay - jitter_range, 0) + jitter

----------------------------------------------------------------------------
IsFailing_Inclusive(h) ==
    h.failing \/ h.min_response_time >= MAX_ACCEPTABLE_RESPONSE_TIME

(* HealthMonitor::next_processor, the variant that is compiled. *)
IsFailing(h) == h.failing \/ h.min_response_time > MAX_ACCEPTABLE_RESPONSE_TIME

next_processor(hs) ==
    IF IsFailing(hs["Default"]) THEN "Err" ELSE "Default"

process_InvalidAccepted(status) ==
    IF status = -1 THEN "InvalidPayment"
    ELSE IF status = 0 THEN "Unavailable"
    ELSE IF status >= 500 \/ status = 429 \/ status = 408 THEN "Unavailable"
    ELSE "Ok"

process_Strict(status) ==
    IF status = -1 THEN "InvalidPayment"
    ELSE IF status = 0 THEN "Unavailable"
    ELSE IF status = 422 THEN "InvalidPayment"
    ELSE IF status \in 200 .. 299 THEN "Ok"
    ELSE "Unavailable"

(***************************************************************************)
(* PaymentProcessor::process: the classification of what the request met.  *)
(* status -1 stands for a request that could not be built, 0 for an Err of *)
(* client.request (connect or transport), anything else is the status of   *)
(* the response.                                                           *)
(***************************************************************************)
process(status) ==
    IF status = -1 THEN "InvalidPayment"
    ELSE IF status = 0 THEN "Unavailable"
    ELSE IF status = 422 THEN "InvalidPayment"
    ELSE IF status >= 500 \/ status = 429 \/ status = 408 THEN "Unavailable"
    ELSE "Ok"

----------------------------------------------------------------------------
Message_CountIgnored(i, rc) ==
    [correlation_id |-> i, amount |-> Amount(i), retry_count |-> 0]

(* A PaymentMessage as deserialized: retry_count is what the frame carried. *)
Message(i, rc) == [correlation_id |-> i, amount |-> Amount(i), retry_count |-> rc]

Frame(kind, i, rc) == [kind |-> kind, correlation_id |-> i, retry_count |-> rc]

Payment_Fallback(msg, processor) ==
    [amount |-> msg.amount, correlation_id |-> msg.correlation_id,
     processor |-> "Fallback"]

(* Payment::new without the requested_at stamp. *)
Payment(msg, processor) ==
    [amount |-> msg.amount, correlation_id |-> msg.correlation_id,
     processor |-> processor]

Healthy == [failing |-> FALSE, min_response_time |-> 0]

(***************************************************************************)
(* The urls of the HealthMonitor: main passes config.default_processor_url *)
(* for both parameters of HealthMonitor::new.                              *)
(***************************************************************************)
urls == [Default |-> "default_processor_url", Fallback |-> "default_processor_url"]

(* The URL each PaymentProcessor is built with: the processor's own. *)
processor_urls ==
    [Default |-> "default_processor_url", Fallback |-> "fallback_processor_url"]

(* A connection to the receive socket that no client has opened yet. *)
NoStream == [pc |-> "none", written |-> 0, read |-> 0, hung_up |-> FALSE]

(* No probe made yet; round flips with every probe. *)
NoProbe == [round |-> 0, last |-> <<>>]

(* A request the ingress has not yet routed. *)
NoRequest == [pc |-> "new", selected |-> <<>>, contacted |-> <<>>,
              upstream |-> <<>>, answer |-> <<>>]

(* A call of the summary or purge handler that has not begun. *)
NoQuery == [route |-> "none", pc |-> "new", failed |-> "none", status |-> 0]

(* What a health probe can bring back: a parsed ProcessorHealth, or an error. *)
ProbeOutcomes ==
    {[ok |-> TRUE, failing |-> f, min_response_time |-> 0] : f \in BOOLEAN}
    \cup {[ok |-> FALSE, failing |-> FALSE, min_response_time |-> 0]}

Start ==
    /\ posted = [i \in Msgs |-> FALSE]
    /\ sock = [c \in Conns |-> <<>>]
    /\ queues = [w \in Workers |-> <<>>]
    /\ cur = [w \in Workers |-> NoWork]
    /\ counter = [t \in Threads |-> 0]
    /\ retry_chan = <<>>
    /\ heap = <<>>
    /\ sched_pc = "top"
    /\ sched_now = 0
    /\ now = 0
    /\ healths = [p \in ProcessorType |-> Healthy]
    /\ store_chan = <<>>
    /\ db = EmptyBag
    /\ wire_rc = [i \in Msgs |-> 0]
    /\ entered = [i \in Msgs |-> FALSE]
    /\ attempts = [i \in Msgs |-> 0]
    /\ retries = [i \in Msgs |-> 0]
    /\ pushed = [i \in Msgs |-> 0]
    /\ fate = [i \in Msgs |-> <<>>]
    /\ probed = NoProbe
    /\ popped = <<>>
    /\ buffer = <<>>
    /\ store_pc = "drain"
    /\ handed = <<>>
    /\ conn_sem = CONN_PERMITS
    /\ stream = [s \in Streams |-> NoStream]
    /\ lb_index = 0
    /\ lb_req = [r \in Requests |-> NoRequest]
    /\ dbh = [h \in Queries |-> NoQuery]

(* The values of ProcessorHealth::min_response_time, a u16. *)
MinResponseTimes == 0 .. 65535

(* What a call of process can meet: -1, 0, or a hyper StatusCode. *)
Outcomes == {-1, 0} \cup (100 .. 999)

(* Every processor may answer every message with any of StatusCodes. *)
AnyAnswer == [i \in Msgs |-> StatusCodes]

(* No call of next_processor under observation. *)
NoSelection == [healths |-> [p \in ProcessorType |-> Healthy], result |-> <<>>]

(* No call of process under observation. *)
NoClassified == [status |-> 200, result |-> <<>>]

(* No call of calc_backoff under observation. *)
NoCalc == [retry_count |-> 0, result |-> <<>>]

NoPublish == [pc |-> "idle", conn |-> 0, result |-> "none", released |-> "none",
              status |-> 0]

(***************************************************************************)
(* Publisher::new, of whose dials n succeeded: the n connections are in    *)
(* the channel and pool_size is n.                                         *)
(***************************************************************************)
PubStart(n) ==
    /\ conn_pool = [k \in 1 .. n |-> k]
    /\ pool_size = n
    /\ recv_lock = 0
    /\ pub = [p \in Publishes |-> NoPublish]
    /\ conns = [dialled |-> n, closed |-> {}]
    /\ replacing = [dial |-> 0, add |-> 0]

(* Fresh payments and payments past MAX_RETRIES, observed up to MaxTime. *)
Init ==
    /\ env = [msgs |-> 1 .. NumMsgs, wire |-> {0, 51}, horizon |-> MaxTime,
              probes |-> FALSE, answers |-> AnyAnswer,
              health |-> ProbeOutcomes, observe |-> FALSE]
    /\ calc = NoCalc
    /\ selection = NoSelection
    /\ classified = NoClassified
    /\ Start
    /\ PubStart(0)

(* One fresh payment, and the probes of the health monitor recorded. *)
HealthInit ==
    /\ env = [msgs |-> {1}, wire |-> {0}, horizon |-> MaxTime,
              probes |-> TRUE, answers |-> AnyAnswer,
              health |-> ProbeOutcomes, observe |-> FALSE]
    /\ calc = NoCalc
    /\ selection = NoSelection
    /\ classified = NoClassified
    /\ Start
    /\ PubStart(0)

(***************************************************************************)
(* Two fresh payments: every attempt of the first is answered 422, every   *)
(* attempt of the second 200, and no probe finds a processor failing, so   *)
(* that every attempt has a processor selected.                            *)
(***************************************************************************)
InvalidInit ==
    /\ env = [msgs |-> {1, 2}, wire |-> {0}, horizon |-> DeepMaxTime,
              probes |-> FALSE,
              answers |-> [i \in Msgs |-> IF i = 1 THEN {422} ELSE {200}],
              health |-> {outcome \in ProbeOutcomes : ~outcome.failing},
              observe |-> FALSE]
    /\ calc = NoCalc
    /\ selection = NoSelection
    /\ classified = NoClassified
    /\ Start
    /\ PubStart(0)

(* Two payments, fresh or one retry short of MAX_RETRIES. *)
MixedInit ==
    /\ env = [msgs |-> {1, 2}, wire |-> {0, 49}, horizon |-> MaxTime,
              probes |-> FALSE, answers |-> AnyAnswer,
              health |-> ProbeOutcomes, observe |-> TRUE]
    /\ calc = NoCalc
    /\ selection = NoSelection
    /\ classified = NoClassified
    /\ Start
    /\ PubStart(0)

(***************************************************************************)
(* More payments than the worker queues and the scheduler's channel hold   *)
(* together, every processor call answered 500, and the run observed until *)
(* the first retries are due.                                              *)
(***************************************************************************)
LoadInit ==
    /\ env = [msgs |-> Msgs, wire |-> {0}, horizon |-> LoadMaxTime,
              probes |-> FALSE,
              answers |-> [i \in Msgs |-> {500}],
              health |-> ProbeOutcomes,
              observe |-> FALSE]
    /\ calc = NoCalc
    /\ selection = NoSelection
    /\ classified = NoClassified
    /\ Start
    /\ PubStart(0)

(* Two payments that arrive with any of the retry_counts a frame may carry. *)
WireInit ==
    /\ env = [msgs |-> {1, 2}, wire |-> WireRetryCounts, horizon |-> MaxTime,
              probes |-> FALSE, answers |-> AnyAnswer,
              health |-> ProbeOutcomes, observe |-> FALSE]
    /\ calc = NoCalc
    /\ selection = NoSelection
    /\ classified = NoClassified
    /\ Start
    /\ PubStart(0)

(* One payment, observed until its retries are used up. *)
DeepInit ==
    /\ env = [msgs |-> {1}, wire |-> WireRetryCounts, horizon |-> DeepMaxTime,
              probes |-> FALSE, answers |-> AnyAnswer,
              health |-> ProbeOutcomes, observe |-> FALSE]
    /\ calc = NoCalc
    /\ selection = NoSelection
    /\ classified = NoClassified
    /\ Start
    /\ PubStart(0)

(* Payments one retry short of MAX_RETRIES, so that every run ends. *)
LiveInit ==
    /\ env = [msgs |-> {1, 2}, wire |-> {49}, horizon |-> LiveMaxTime,
              probes |-> FALSE, answers |-> AnyAnswer,
              health |-> ProbeOutcomes, observe |-> FALSE]
    /\ calc = NoCalc
    /\ selection = NoSelection
    /\ classified = NoClassified
    /\ Start
    /\ PubStart(0)

(* A call of calc_backoff with any retry_count up to MaxRetryCount. *)
BackoffInit ==
    /\ env = [msgs |-> {}, wire |-> {}, horizon |-> 0,
              probes |-> FALSE, answers |-> AnyAnswer,
              health |-> ProbeOutcomes, observe |-> FALSE]
    /\ calc \in [retry_count : 0 .. MaxRetryCount, result : {<<>>}]
    /\ selection = NoSelection
    /\ classified = NoClassified
    /\ Start
    /\ PubStart(0)

(* The publisher after Publisher::new, with any number of its dials failed. *)
PubInit ==
    /\ env = [msgs |-> {}, wire |-> {}, horizon |-> 0,
              probes |-> FALSE, answers |-> AnyAnswer,
              health |-> ProbeOutcomes, observe |-> FALSE]
    /\ calc = NoCalc
    /\ selection = NoSelection
    /\ classified = NoClassified
    /\ Start
    /\ \E n \in 0 .. Min(MAX_CONNS, INITIAL_CONNS) : PubStart(n)

----------------------------------------------------------------------------
(***************************************************************************)
(* POST /payments answered 202: the publisher wrote the body and a newline *)
(* to connection c.  The gateway forwards the body as it came, so the      *)
(* frame may be a PaymentMessage with any retry_count, or no message.      *)
(* Messages are numbered in the order they are posted.                     *)
(***************************************************************************)
Post(c, i, kind, rc) ==
    /\ i \in env.msgs
    /\ ~posted[i]
    /\ \A j \in Msgs : j < i => posted[j]
    /\ IF kind = "msg" THEN rc \in env.wire ELSE rc = 0
    /\ posted' = [posted EXCEPT ![i] = TRUE]
    /\ sock' = [sock EXCEPT ![c] = Append(@, Frame(kind, i, rc))]
    /\ wire_rc' = [wire_rc EXCEPT ![i] = rc]
    /\ UNCHANGED <<restVars, poolVars, now, healths, store_chan, db,
                   entered, attempts, retries, pushed, fate>>

(* Whether the try_send of submit_internal on thread t finds room. *)
SubmitAccepts(t) == Len(queues[counter[t]]) < WorkerChannelSize

submit_internal_TryNext(msg, t) ==
    LET worker_index == counter[t]
        next_index   == (worker_index + 1) % NumWorkers
    IN  /\ counter' = [counter EXCEPT ![t] = next_index]
        /\ queues' = IF Len(queues[worker_index]) < WorkerChannelSize
                     THEN [queues EXCEPT ![worker_index] = Append(@, msg)]
                     ELSE [queues EXCEPT ![next_index] = Append(@, msg)]

(***************************************************************************)
(* WorkerPool::submit_internal, called on thread t: the thread-local       *)
(* COUNTER picks the worker and moves on, then try_send.                   *)
(***************************************************************************)
submit_internal(msg, t) ==
    LET worker_index == counter[t]
    IN  /\ counter' = [counter EXCEPT ![t] = (worker_index + 1) % NumWorkers]
        /\ queues' = IF Len(queues[worker_index]) < WorkerChannelSize
                     THEN [queues EXCEPT ![worker_index] = Append(@, msg)]
                     ELSE queues

read_producer_ReturnOnBadFrame(c, t) ==
    /\ sock[c] # <<>>
    /\ LET frame == Head(sock[c])
           i     == frame.correlation_id
       IN  IF frame.kind = "msg"
           THEN /\ sock' = [sock EXCEPT ![c] = Tail(@)]
                /\ submit_internal(Message(i, frame.retry_count), t)
                /\ entered' = [entered EXCEPT ![i] = SubmitAccepts(t)]
                /\ fate' = IF SubmitAccepts(t) THEN fate
                           ELSE [fate EXCEPT ![i] = Append(@, "submit_full")]
           ELSE /\ sock' = [sock EXCEPT ![c] = <<>>]
                /\ UNCHANGED <<queues, counter, entered>>
                /\ fate' = [fate EXCEPT ![i] =
                              Append(@, IF frame.kind = "empty"
                                        THEN "empty" ELSE "parse_error")]
    /\ UNCHANGED <<posted, cur, retry_chan, heap, sched_pc, sched_now, now,
                   healths, store_chan, db, restVars, wire_rc, attempts,
                   retries, pushed>>

(***************************************************************************)
(* Receiver::read_producer reads the next frame of connection c and calls  *)
(* WorkerPool::submit on thread t: an empty frame is skipped, a frame that *)
(* does not parse is dropped, a message goes to submit_internal.           *)
(***************************************************************************)
read_producer(c, t) ==
    /\ sock[c] # <<>>
    /\ LET frame == Head(sock[c])
           i     == frame.correlation_id
       IN  /\ sock' = [sock EXCEPT ![c] = Tail(@)]
           /\ IF frame.kind = "msg"
              THEN /\ submit_internal(Message(i, frame.retry_count), t)
                   /\ entered' = [entered EXCEPT ![i] = SubmitAccepts(t)]
                   /\ fate' = IF SubmitAccepts(t) THEN fate
                              ELSE [fate EXCEPT ![i] = Append(@, "submit_full")]
              ELSE /\ UNCHANGED <<queues, counter, entered>>
                   /\ fate' = [fate EXCEPT ![i] =
                                 Append(@, IF frame.kind = "empty"
                                           THEN "empty" ELSE "parse_error")]
    /\ UNCHANGED <<posted, cur, retry_chan, heap, sched_pc, sched_now, now,
                   healths, store_chan, db, restVars, wire_rc, attempts,
                   retries, pushed>>

RetryDropsAtMax_Late(msg) == msg.retry_count > MAX_RETRIES

(* The try_send of retry() finds room in the scheduler's channel. *)
RetryChanAccepts == Len(retry_chan) < RetryChannelSize

(* retry(): the message has used up its retries and is dropped. *)
RetryDropsAtMax(msg) == msg.retry_count >= MAX_RETRIES

RetryItem_Twice(msg) ==
    [msg |-> [msg EXCEPT !.retry_count = @ + 2],
     next_attempt |-> now + calc_backoff(msg.retry_count + 1),
     called_at |-> now]

RetryItem_BeforeIncrement(msg) ==
    [msg |-> [msg EXCEPT !.retry_count = @ + 1],
     next_attempt |-> now + calc_backoff(msg.retry_count),
     called_at |-> now]

(***************************************************************************)
(* retry(): the RetryItem built for msg, its retry_count incremented.      *)
(* called_at is history: the Instant::now() next_attempt is computed from. *)
(***************************************************************************)
RetryItem(msg) ==
    LET m2 == [msg EXCEPT !.retry_count = @ + 1]
    IN  [msg |-> m2,
         next_attempt |-> now + calc_backoff(m2.retry_count),
         called_at |-> now]

retry_Waits(msg) ==
    IF RetryDropsAtMax(msg)
    THEN UNCHANGED <<retry_chan, retries>>
    ELSE /\ RetryChanAccepts
         /\ retries' = [retries EXCEPT ![msg.correlation_id] = @ + 1]
         /\ retry_chan' = Append(retry_chan, RetryItem(msg))

(***************************************************************************)
(* WorkerPool::retry: drop at MAX_RETRIES, else build the RetryItem and    *)
(* try_send it to the scheduler; a full channel drops it with a warning.   *)
(***************************************************************************)
retry(msg) ==
    IF RetryDropsAtMax(msg)
    THEN UNCHANGED <<retry_chan, retries>>
    ELSE /\ retries' = [retries EXCEPT ![msg.correlation_id] = @ + 1]
         /\ retry_chan' = IF RetryChanAccepts
                          THEN Append(retry_chan, RetryItem(msg))
                          ELSE retry_chan

(* What a call of retry(msg) is the end of, if it drops the message. *)
RetryFate(msg) ==
    IF RetryDropsAtMax(msg) THEN <<"max_retries">>
    ELSE IF RetryChanAccepts THEN <<>> ELSE <<"retry_full">>

(* The try_send of push_payment finds room in the store channel. *)
StoreChanAccepts == Len(store_chan) < STORE_CHANNEL_SIZE

push_payment_Always(payment) ==
    /\ store_chan' = Append(store_chan, payment)
    /\ pushed' = [pushed EXCEPT ![payment.correlation_id] = @ + 1]

(* Store::push_payment: try_send on the store channel. *)
push_payment(payment) ==
    /\ store_chan' = IF StoreChanAccepts
                     THEN Append(store_chan, payment) ELSE store_chan
    /\ pushed' = IF StoreChanAccepts
                 THEN [pushed EXCEPT ![payment.correlation_id] = @ + 1]
                 ELSE pushed

PushFate == IF StoreChanAccepts THEN <<"stored">> ELSE <<"store_full">>

(***************************************************************************)
(* worker_loop up to the processor call: receiver.recv() hands worker w    *)
(* the head of its queue and process_message asks next_processor.  With a  *)
(* processor chosen the call is in flight; with Err(_) process_message     *)
(* returns ProcessorsUnavailable and the message goes to retry().          *)
(***************************************************************************)
worker_loop(w) ==
    /\ cur[w] = NoWork
    /\ queues[w] # <<>>
    /\ LET msg    == Head(queues[w])
           i      == msg.correlation_id
           choice == next_processor(healths)
       IN  /\ queues' = [queues EXCEPT ![w] = Tail(@)]
           /\ attempts' = [attempts EXCEPT ![i] = @ + 1]
           /\ IF choice = "Err"
              THEN /\ retry(msg)
                   /\ fate' = [fate EXCEPT ![i] = @ \o RetryFate(msg)]
                   /\ cur' = cur
              ELSE /\ cur' = [cur EXCEPT ![w] = [msg |-> msg, processor |-> choice]]
                   /\ UNCHANGED <<retry_chan, retries, fate>>
    /\ UNCHANGED <<posted, sock, counter, heap, sched_pc, sched_now, now,
                   healths, store_chan, db, restVars, wire_rc, entered,
                   pushed>>

RetriesAfter_Always(ok) == TRUE

(* worker_loop: `if let Err(e) = process_message(..)` sends msg to retry(). *)
RetriesAfter(ok) == ~ok

(***************************************************************************)
(* process_default / process_fallback from the answer of the processor     *)
(* on: Ok(_) pushes the Payment to the store (a failed push is logged) and *)
(* returns Ok, an error returns PaymentFailed and worker_loop retries.     *)
(***************************************************************************)
process_response(w, status) ==
    /\ cur[w] # NoWork
    /\ status \in env.answers[cur[w].msg.correlation_id]
    /\ LET msg == cur[w].msg
           i   == msg.correlation_id
           ok  == process(status) = "Ok"
       IN  /\ IF ok
              THEN push_payment(Payment(msg, cur[w].processor))
              ELSE UNCHANGED <<store_chan, pushed>>
           /\ IF RetriesAfter(ok)
              THEN retry(msg)
              ELSE UNCHANGED <<retry_chan, retries>>
           /\ fate' = [fate EXCEPT ![i] =
                         @ \o (IF ok THEN PushFate ELSE <<>>)
                           \o (IF RetriesAfter(ok) THEN RetryFate(msg) ELSE <<>>)]
    /\ cur' = [cur EXCEPT ![w] = NoWork]
    /\ UNCHANGED <<posted, sock, queues, counter, heap, sched_pc, sched_now,
                   now, healths, db, restVars, wire_rc, entered, attempts>>

----------------------------------------------------------------------------
HeapTop_Latest(h) ==
    {k \in 1 .. Len(h) : \A j \in 1 .. Len(h) : h[k].next_attempt >= h[j].next_attempt}

(* The items of the heap that compare greatest: the smallest next_attempt. *)
HeapTop(h) ==
    {k \in 1 .. Len(h) : \A j \in 1 .. Len(h) : h[k].next_attempt <= h[j].next_attempt}

(* The rows a drained buffer holds, as a bag. *)
SeqBag(seq) ==
    [x \in {seq[k] : k \in 1 .. Len(seq)} |->
       Cardinality({k \in 1 .. Len(seq) : seq[k] = x})]

RemoveAt(seq, k) == SubSeq(seq, 1, k - 1) \o SubSeq(seq, k + 1, Len(seq))

(* retry_loop, the top of an iteration: let now = Instant::now(). *)
retry_loop_top ==
    /\ sched_pc = "top"
    /\ sched_now' = now
    /\ sched_pc' = "drain"
    /\ popped' = <<>>
    /\ UNCHANGED <<posted, sock, queues, cur, counter, retry_chan, heap, now,
                   healths, store_chan, db, schedRest, historyVars>>

IsDue_Always(item) == TRUE

IsDue_Never(item) == FALSE

(* The test of the drain loop: the item at the top of the heap is due. *)
IsDue(item) == item.next_attempt <= sched_now

HeapAfterPop_Peek(h, k) == h

HeapAfterPop_Clear(h, k) == <<>>

(* heap.pop(): the heap without the item at its top. *)
HeapAfterPop(h, k) == RemoveAt(h, k)

(***************************************************************************)
(* retry_loop, one turn of `while let Some(item) = heap.peek()`, on thread *)
(* t: a due item is popped and resubmitted through submit_internal; a      *)
(* failed resubmission is logged and the item is gone.  Otherwise the loop *)
(* ends and the task goes to its select.                                   *)
retry_loop_drain_Reinsert(t) ==
    /\ sched_pc = "drain"
    /\ IF heap # <<>> /\ \E k \in HeapTop(heap) : IsDue(heap[k])
       THEN \E k \in HeapTop(heap) :
              LET item == heap[k]
                  i    == item.msg.correlation_id
              IN  /\ heap' = IF SubmitAccepts(t) THEN HeapAfterPop(heap, k) ELSE heap
                  /\ submit_internal(item.msg, t)
                  /\ fate' = IF SubmitAccepts(t) THEN fate
                             ELSE [fate EXCEPT ![i] = Append(@, "resubmit_full")]
                  /\ popped' = IF env.observe
                               THEN Append(popped, item.next_attempt)
                               ELSE popped
                  /\ UNCHANGED <<sched_pc, sched_now>>
       ELSE /\ sched_pc' = "select"
            /\ sched_now' = 0
            /\ UNCHANGED <<heap, queues, counter, fate, popped>>
    /\ UNCHANGED <<posted, sock, cur, retry_chan, now, healths,
                   store_chan, db, schedRest, wire_rc, entered, attempts, retries,
                   pushed>>

(***************************************************************************)
retry_loop_drain(t) ==
    /\ sched_pc = "drain"
    /\ IF heap # <<>> /\ \E k \in HeapTop(heap) : IsDue(heap[k])
       THEN \E k \in HeapTop(heap) :
              LET item == heap[k]
                  i    == item.msg.correlation_id
              IN  /\ heap' = HeapAfterPop(heap, k)
                  /\ submit_internal(item.msg, t)
                  /\ fate' = IF SubmitAccepts(t) THEN fate
                             ELSE [fate EXCEPT ![i] = Append(@, "resubmit_full")]
                  /\ popped' = IF env.observe
                               THEN Append(popped, item.next_attempt)
                               ELSE popped
                  /\ UNCHANGED <<sched_pc, sched_now>>
       ELSE /\ sched_pc' = "select"
            /\ sched_now' = 0
            /\ UNCHANGED <<heap, queues, counter, fate, popped>>
    /\ UNCHANGED <<posted, sock, cur, retry_chan, now, healths,
                   store_chan, db, schedRest, wire_rc, entered, attempts, retries,
                   pushed>>

retry_loop_recv_KeyedByOrd ==
    /\ sched_pc = "select"
    /\ retry_chan # <<>>
    /\ heap' = IF \E k \in 1 .. Len(heap) :
                     heap[k].next_attempt = Head(retry_chan).next_attempt
               THEN heap
               ELSE Append(heap, Head(retry_chan))
    /\ retry_chan' = Tail(retry_chan)
    /\ sched_pc' = "top"
    /\ UNCHANGED <<posted, sock, queues, cur, counter, sched_now, now, healths,
                   store_chan, db, restVars, historyVars>>

(* retry_loop, the select: retry_receiver.recv() brought an item. *)
retry_loop_recv ==
    /\ sched_pc = "select"
    /\ retry_chan # <<>>
    /\ heap' = Append(heap, Head(retry_chan))
    /\ retry_chan' = Tail(retry_chan)
    /\ sched_pc' = "top"
    /\ UNCHANGED <<posted, sock, queues, cur, counter, sched_now, now, healths,
                   store_chan, db, restVars, historyVars>>

(* retry_loop, the select: sleep_until(next_attempt of the peeked item). *)
retry_loop_timer ==
    /\ sched_pc = "select"
    /\ heap # <<>>
    /\ \E k \in HeapTop(heap) : heap[k].next_attempt <= now
    /\ sched_pc' = "top"
    /\ UNCHANGED <<posted, sock, queues, cur, counter, retry_chan, heap,
                   sched_now, now, healths, store_chan, db, restVars, historyVars>>

(* The instants some RetryItem waits for. *)
Deadlines ==
    {heap[k].next_attempt : k \in 1 .. Len(heap)}
    \cup {retry_chan[k].next_attempt : k \in 1 .. Len(retry_chan)}

(* Time passes, up to the next instant a RetryItem waits for. *)
Tick ==
    /\ \E d \in Deadlines :
         /\ d > now
         /\ d <= env.horizon
         /\ \A e \in Deadlines : e > now => d <= e
         /\ now' = d
    /\ UNCHANGED <<posted, sock, poolVars, healths, store_chan, db,
                   restVars, historyVars>>

----------------------------------------------------------------------------
(* The history of a probe: which entry it was for, where it went, its result. *)
Probe(processor_type, url, outcome) ==
    IF env.probes
    THEN [round |-> 1 - probed.round,
          last |-> <<[entry |-> processor_type, url |-> url, outcome |-> outcome]>>]
    ELSE probed

try_update_health_Reset(processor_type, url, outcome) ==
    /\ healths' = [healths EXCEPT ![processor_type] =
                     IF outcome.ok
                     THEN [failing |-> outcome.failing,
                           min_response_time |-> outcome.min_response_time]
                     ELSE [failing |-> TRUE, min_response_time |-> 0]]
    /\ probed' = Probe(processor_type, url, outcome)
    /\ UNCHANGED <<posted, sock, poolVars, now, store_chan, db, env, calc, selection, classified,
                   pubVars, lb_index, lb_req, dbh, historyVars, popped,
                   storeVars, acceptVars>>

try_update_health_Remove(processor_type, url, outcome) ==
    /\ healths' = IF outcome.ok
                  THEN [healths EXCEPT ![processor_type] =
                          [failing |-> outcome.failing,
                           min_response_time |-> outcome.min_response_time]]
                  ELSE [p \in DOMAIN healths \ {processor_type} |-> healths[p]]
    /\ probed' = Probe(processor_type, url, outcome)
    /\ UNCHANGED <<posted, sock, poolVars, now, store_chan, db, env, calc, selection, classified,
                   pubVars, lb_index, lb_req, dbh, historyVars, popped,
                   storeVars, acceptVars>>

(***************************************************************************)
(* HealthMonitor::try_update_health(processor_type, .., url, ..), called by *)
(* the monitor task for Default and for Fallback on every round: a         *)
(* successful probe of url writes the entry of processor_type, a failed    *)
(* one only logs.                                                          *)
(***************************************************************************)
try_update_health(processor_type, url, outcome) ==
    /\ outcome \in env.health
    /\ healths' = IF outcome.ok
                  THEN [healths EXCEPT ![processor_type] =
                          [failing |-> outcome.failing,
                           min_response_time |-> outcome.min_response_time]]
                  ELSE healths
    /\ probed' = Probe(processor_type, url, outcome)
    /\ UNCHANGED <<posted, sock, poolVars, now, store_chan, db, env, calc, selection, classified,
                   pubVars, lb_index, lb_req, dbh, historyVars, popped,
                   storeVars, acceptVars>>

(***************************************************************************)
(* Store::insert_loop, one iteration that found payments: the channel is   *)
(* drained into the buffer, one payment goes to insert_payment and more    *)
(* than one to batch_payments; a database error loses what was drained.    *)
(***************************************************************************)
insert_loop(db_ok) ==
    /\ store_chan # <<>>
    /\ store_chan' = <<>>
    /\ db' = IF db_ok THEN db (+) SeqBag(store_chan) ELSE db
    /\ UNCHANGED <<posted, sock, poolVars, now, healths, restVars, historyVars>>

----------------------------------------------------------------------------
Next ==
    \/ \E c \in Conns, i \in Msgs, kind \in FrameKinds, rc \in WireRetryCounts :
         Post(c, i, kind, rc)
    \/ \E c \in Conns, t \in Threads : read_producer(c, t)
    \/ \E w \in Workers : worker_loop(w)
    \/ \E w \in Workers, status \in StatusCodes : process_response(w, status)
    \/ retry_loop_top
    \/ \E t \in Threads : retry_loop_drain(t)
    \/ retry_loop_recv
    \/ retry_loop_timer
    \/ Tick
    \/ \E processor_type \in ProcessorType, outcome \in ProbeOutcomes :
         try_update_health(processor_type, urls[processor_type], outcome)
    \/ \E db_ok \in BOOLEAN : insert_loop(db_ok)

Spec == Init /\ [][Next]_vars

DeepSpec == DeepInit /\ [][Next]_vars

MixedSpec == MixedInit /\ [][Next]_vars

WireSpec == WireInit /\ [][Next]_vars

(***************************************************************************)
(* The cycle of the worker process under load: the receiver, the workers   *)
(* and the retry scheduler, with well-formed frames only.                  *)
(***************************************************************************)
LoadNext ==
    \/ \E c \in Conns, i \in Msgs : Post(c, i, "msg", 0)
    \/ \E c \in Conns, t \in Threads : read_producer(c, t)
    \/ \E w \in Workers : worker_loop(w)
    \/ \E w \in Workers, status \in StatusCodes : process_response(w, status)
    \/ retry_loop_top
    \/ \E t \in Threads : retry_loop_drain(t)
    \/ retry_loop_recv
    \/ retry_loop_timer
    \/ Tick

LoadSpec == LoadInit /\ [][LoadNext]_vars

(* The worker with its health monitor observed: every probe is recorded. *)
HealthSpec == HealthInit /\ [][Next]_vars

(***************************************************************************)
(* What the tokio runtime gives the tasks: a task that can take a step     *)
(* takes it - the reader of a connection with a frame, a worker with a     *)
(* message or an answered call, the scheduler at each point of its loop -  *)
(* and the clock reaches every deadline.                                   *)
(***************************************************************************)
Fairness ==
    /\ \A c \in Conns : WF_vars(\E t \in Threads : read_producer(c, t))
    /\ \A w \in Workers : WF_vars(worker_loop(w))
    /\ \A w \in Workers : WF_vars(\E status \in StatusCodes : process_response(w, status))
    /\ WF_vars(retry_loop_top)
    /\ WF_vars(\E t \in Threads : retry_loop_drain(t))
    /\ WF_vars(retry_loop_recv)
    /\ WF_vars(retry_loop_timer)
    /\ WF_vars(Tick)

LiveSpec == LiveInit /\ [][Next]_vars /\ Fairness

InvalidSpec == InvalidInit /\ [][Next]_vars /\ Fairness

----------------------------------------------------------------------------
(* A call of next_processor with any health map. *)
SelectInit ==
    /\ env = [msgs |-> {}, wire |-> {}, horizon |-> 0, probes |-> FALSE,
              answers |-> AnyAnswer,
              health |-> ProbeOutcomes, observe |-> FALSE]
    /\ calc = NoCalc
    /\ classified = NoClassified
    /\ \E default \in [failing : BOOLEAN, min_response_time : MinResponseTimes],
          fallback \in [failing : BOOLEAN, min_response_time : {0}] :
          selection = [healths |-> [Default |-> default, Fallback |-> fallback],
                       result |-> <<>>]
    /\ Start
    /\ PubStart(0)

(* A call of next_processor() on the health map returns. *)
CallNextProcessor ==
    /\ selection.result = <<>>
    /\ selection' = [selection EXCEPT !.result = <<next_processor(selection.healths)>>]
    /\ UNCHANGED <<env, pubVars, posted, sock, poolVars, now, healths,
                   store_chan, db, historyVars, lb_index, lb_req, dbh, probed, popped,
                   storeVars, acceptVars,
                   calc, classified>>

SelectSpec == SelectInit /\ [][CallNextProcessor]_vars

(* A call of process that meets any outcome. *)
ClassifyInit ==
    /\ env = [msgs |-> {}, wire |-> {}, horizon |-> 0, probes |-> FALSE,
              answers |-> AnyAnswer,
              health |-> ProbeOutcomes, observe |-> FALSE]
    /\ calc = NoCalc
    /\ selection = NoSelection
    /\ classified \in [status : Outcomes, result : {<<>>}]
    /\ Start
    /\ PubStart(0)

(* A call of process() returns. *)
CallProcess ==
    /\ classified.result = <<>>
    /\ classified' = [classified EXCEPT !.result = <<process(classified.status)>>]
    /\ UNCHANGED <<env, pubVars, posted, sock, poolVars, now, healths,
                   store_chan, db, historyVars, lb_index, lb_req, dbh, probed, popped,
                   storeVars, acceptVars,
                   calc, selection>>

ClassifySpec == ClassifyInit /\ [][CallProcess]_vars

----------------------------------------------------------------------------
(* A call of calc_backoff(retry_count) returns. *)
CallCalcBackoff ==
    /\ calc.result = <<>>
    /\ calc' = [calc EXCEPT !.result = <<calc_backoff(calc.retry_count)>>]
    /\ UNCHANGED <<env, pubVars, posted, sock, poolVars, now, healths,
                   store_chan, db, historyVars, lb_index, lb_req, dbh, probed, popped,
                   storeVars, acceptVars,
                   selection, classified>>

BackoffSpec == BackoffInit /\ [][CallCalcBackoff]_vars

----------------------------------------------------------------------------
(***************************************************************************)
(* The publisher of the gateway, src/gateway/src/publisher.rs.  Every call *)
(* p of publish() is a task; a step is one operation on the channel, the   *)
(* Mutex or the atomic pool_size.  pool_size is a usize: it is kept as the *)
(* integer of least absolute value congruent to it modulo 2^64, so that    *)
(* fetch_sub at 0 gives -1, which stands for usize::MAX.                   *)
(***************************************************************************)
workerVars == <<posted, sock, poolVars, now, healths, store_chan, db, historyVars,
                popped, storeVars, acceptVars>>

(* What the tasks of the publisher leave alone. *)
pubRest == <<env, calc, selection, classified, workerVars, lb_index, lb_req, dbh, probed>>

PoolChannelSize_Double == 2 * MAX_CONNS

(* mpsc::channel(max_conns) *)
PoolChannelSize == MAX_CONNS

(* What the dial of acquire() under connect_timeout can end in. *)
DialOutcomes == {"Ok", "Timeout", "ConnectionFailed"}

(* a < b for a usize a kept as above and a small b *)
UsizeLess(a, b) == a >= 0 /\ a < b

(* A connection goes out of scope or is shut down. *)
Close(conn) == conns' = [conns EXCEPT !.closed = @ \cup {conn}]

acquire_recv_Peek(p) ==
    /\ pub[p].pc = "idle"
    /\ recv_lock = 0
    /\ conn_pool # <<>>
    /\ recv_lock' = p
    /\ pub' = [pub EXCEPT ![p].pc = "recv", ![p].conn = Head(conn_pool)]
    /\ UNCHANGED <<conn_pool, pool_size, conns, replacing, pubRest>>

(* acquire(): try_lock succeeded and try_recv brought a connection. *)
acquire_recv(p) ==
    /\ pub[p].pc = "idle"
    /\ recv_lock = 0
    /\ conn_pool # <<>>
    /\ recv_lock' = p
    /\ conn_pool' = Tail(conn_pool)
    /\ pub' = [pub EXCEPT ![p].pc = "recv", ![p].conn = Head(conn_pool)]
    /\ UNCHANGED <<pool_size, conns, replacing, pubRest>>

(* acquire(): pool_size.fetch_sub(1) and return; the guard is dropped. *)
acquire_sub(p) ==
    /\ pub[p].pc = "recv"
    /\ pool_size' = pool_size - 1
    /\ recv_lock' = 0
    /\ pub' = [pub EXCEPT ![p].pc = "write"]
    /\ UNCHANGED <<conn_pool, conns, replacing, pubRest>>

(***************************************************************************)
(* acquire(): the Mutex is held by another task or the channel is empty,   *)
(* and a new connection is dialled under connect_timeout.  A failed dial   *)
(* ends publish() with Err(Timeout) or Err(ConnectionFailed).              *)
(***************************************************************************)
acquire_dial(p, dial) ==
    /\ pub[p].pc = "idle"
    /\ recv_lock # 0 \/ conn_pool = <<>>
    /\ IF dial = "Ok"
       THEN /\ conns' = [conns EXCEPT !.dialled = @ + 1]
            /\ pub' = [pub EXCEPT ![p].pc = "write", ![p].conn = conns.dialled + 1]
       ELSE /\ pub' = [pub EXCEPT ![p].pc = "done", ![p].result = dial]
            /\ UNCHANGED conns
    /\ UNCHANGED <<conn_pool, pool_size, recv_lock, replacing, pubRest>>

(* publish(): the message and the newline are written and flushed, or not. *)
publish_write(p, write_ok) ==
    /\ pub[p].pc = "write"
    /\ IF write_ok
       THEN /\ pub' = [pub EXCEPT ![p].pc = "release"]
            /\ UNCHANGED conns
       ELSE /\ pub' = [pub EXCEPT ![p].pc = "failed"]
            /\ Close(pub[p].conn)
    /\ UNCHANGED <<conn_pool, pool_size, recv_lock, replacing, pubRest>>

publish_failed_NoReplace(p) ==
    /\ pub[p].pc = "failed"
    /\ pool_size' = pool_size - 1
    /\ pub' = [pub EXCEPT ![p].pc = "done", ![p].result = "WriteError"]
    /\ UNCHANGED <<conn_pool, recv_lock, conns, replacing, pubRest>>

(* publish(), after a failed write: fetch_sub(1), spawn replace(), Err. *)
publish_failed(p) ==
    /\ pub[p].pc = "failed"
    /\ pool_size' = pool_size - 1
    /\ replacing' = [replacing EXCEPT !.dial = @ + 1]
    /\ pub' = [pub EXCEPT ![p].pc = "done", ![p].result = "WriteError"]
    /\ UNCHANGED <<conn_pool, recv_lock, conns, pubRest>>

(* release(): `if pool_size.load() < max_conns`, else the connection drops. *)
release_load(p) ==
    /\ pub[p].pc = "release"
    /\ IF UsizeLess(pool_size, MAX_CONNS)
       THEN /\ pub' = [pub EXCEPT ![p].pc = "send"]
            /\ UNCHANGED conns
       ELSE /\ pub' = [pub EXCEPT ![p].pc = "done", ![p].result = "Ok",
                                  ![p].released = "over_size"]
            /\ Close(pub[p].conn)
    /\ UNCHANGED <<conn_pool, pool_size, recv_lock, replacing, pubRest>>

(* release(): conn_pool.try_send(conn); a full channel drops the connection. *)
release_send(p) ==
    /\ pub[p].pc = "send"
    /\ IF Len(conn_pool) < PoolChannelSize
       THEN /\ conn_pool' = Append(conn_pool, pub[p].conn)
            /\ pub' = [pub EXCEPT ![p].pc = "add"]
            /\ UNCHANGED conns
       ELSE /\ pub' = [pub EXCEPT ![p].pc = "done", ![p].result = "Ok",
                                  ![p].released = "chan_full"]
            /\ Close(pub[p].conn)
            /\ UNCHANGED conn_pool
    /\ UNCHANGED <<pool_size, recv_lock, replacing, pubRest>>

(* release(): pool_size.fetch_add(1) after the try_send; publish() is Ok. *)
release_add(p) ==
    /\ pub[p].pc = "add"
    /\ pool_size' = pool_size + 1
    /\ pub' = [pub EXCEPT ![p].pc = "done", ![p].result = "Ok",
                          ![p].released = "pooled"]
    /\ UNCHANGED <<conn_pool, recv_lock, conns, replacing, pubRest>>

(* replace(): dial under connect_timeout and try_send the new connection. *)
replace_dial(dial_ok) ==
    /\ replacing.dial > 0
    /\ IF dial_ok
       THEN IF Len(conn_pool) < PoolChannelSize
            THEN /\ conn_pool' = Append(conn_pool, conns.dialled + 1)
                 /\ conns' = [conns EXCEPT !.dialled = @ + 1]
                 /\ replacing' = [dial |-> replacing.dial - 1,
                                  add |-> replacing.add + 1]
            ELSE /\ conns' = [dialled |-> conns.dialled + 1,
                              closed |-> conns.closed \cup {conns.dialled + 1}]
                 /\ replacing' = [replacing EXCEPT !.dial = @ - 1]
                 /\ UNCHANGED conn_pool
       ELSE /\ replacing' = [replacing EXCEPT !.dial = @ - 1]
            /\ UNCHANGED <<conn_pool, conns>>
    /\ UNCHANGED <<pool_size, recv_lock, pub, pubRest>>

(* replace(): pool_size.fetch_add(1) after its try_send. *)
replace_add ==
    /\ replacing.add > 0
    /\ pool_size' = pool_size + 1
    /\ replacing' = [replacing EXCEPT !.add = @ - 1]
    /\ UNCHANGED <<conn_pool, recv_lock, pub, conns, pubRest>>

EchoStatus_Accepted(result) == 202

(* echo, POST /payments: ACCEPTED on Ok(_), TOO_MANY_REQUESTS on Err(_). *)
EchoStatus(result) == IF result = "Ok" THEN 202 ELSE 429

(***************************************************************************)
(* echo, POST /payments: body.collect() failed, so the handler returns the *)
(* hyper error before it calls publish() and no response is written.       *)
(***************************************************************************)
echo_body_error(p) ==
    /\ pub[p].pc = "idle"
    /\ pub' = [pub EXCEPT ![p].pc = "aborted"]
    /\ UNCHANGED <<conn_pool, pool_size, recv_lock, conns, replacing, pubRest>>

(* echo, POST /payments: publish() returned and the response is built. *)
echo_respond(p) ==
    /\ pub[p].pc = "done"
    /\ pub' = [pub EXCEPT ![p].pc = "answered",
                          ![p].status = EchoStatus(pub[p].result)]
    /\ UNCHANGED <<conn_pool, pool_size, recv_lock, conns, replacing, pubRest>>

PubNext ==
    \/ \E p \in Publishes : acquire_recv(p)
    \/ \E p \in Publishes : acquire_sub(p)
    \/ \E p \in Publishes, dial \in DialOutcomes : acquire_dial(p, dial)
    \/ \E p \in Publishes, write_ok \in BOOLEAN : publish_write(p, write_ok)
    \/ \E p \in Publishes : publish_failed(p)
    \/ \E p \in Publishes : release_load(p)
    \/ \E p \in Publishes : release_send(p)
    \/ \E p \in Publishes : release_add(p)
    \/ \E dial_ok \in BOOLEAN : replace_dial(dial_ok)
    \/ replace_add
    \/ \E p \in Publishes : echo_body_error(p)
    \/ \E p \in Publishes : echo_respond(p)

PubSpec == PubInit /\ [][PubNext]_vars

----------------------------------------------------------------------------
(***************************************************************************)
(* The ingress, src/loadbalancer.  Every inbound request r is a call of    *)
(* proxy_service.  backends is never empty: from_env splits a string that  *)
(* has a default, and a split yields at least one element.                 *)
(***************************************************************************)
ingressRest == <<env, calc, selection, classified, pubVars, workerVars, dbh, probed>>

(* What a backend can answer. *)
BackendAnswers ==
    {[status |-> 202, body |-> ""], [status |-> 200, body |-> "summary"],
     [status |-> 500, body |-> ""]}

(* What client.request(..).await brings: an answer, or <<>> for an error. *)
BackendOutcomes == {<<>>} \cup {<<a>> : a \in BackendAnswers}

(* From<ProxyResponse>: the backend's response as it is, or an empty 502. *)
ProxyResponse(outcome) ==
    IF outcome = <<>> THEN <<[status |-> 502, body |-> ""]>> ELSE outcome

select_backend_NoAdvance(r) ==
    /\ lb_req[r].pc = "new"
    /\ lb_index' = lb_index
    /\ lb_req' = [lb_req EXCEPT ![r].pc = "forward",
                                ![r].selected = Append(@, lb_index % NumBackends)]
    /\ UNCHANGED ingressRest

(***************************************************************************)
(* select_backend, called first thing by forward_request:                  *)
(* current_index.fetch_add(1) % backend_count.                             *)
(***************************************************************************)
select_backend(r) ==
    /\ lb_req[r].pc = "new"
    /\ lb_index' = lb_index + 1
    /\ lb_req' = [lb_req EXCEPT ![r].pc = "forward",
                                ![r].selected = Append(@, lb_index % NumBackends)]
    /\ UNCHANGED ingressRest

forward_request_Retry(r, outcome) ==
    /\ lb_req[r].pc = "forward"
    /\ LET backend == lb_req[r].selected[Len(lb_req[r].selected)]
       IN  lb_req' = [lb_req EXCEPT
                        ![r].pc = "done",
                        ![r].contacted =
                            IF outcome = <<>>
                            THEN @ \o <<backend, (backend + 1) % NumBackends>>
                            ELSE Append(@, backend),
                        ![r].upstream = outcome,
                        ![r].answer = ProxyResponse(outcome)]
    /\ UNCHANGED <<lb_index, ingressRest>>

(***************************************************************************)
(* forward_request after select_backend, and proxy_service: the request is *)
(* sent to the selected backend; its response, or ProxyResponse::Error for *)
(* a failed client.request, is what the client gets.                       *)
(***************************************************************************)
forward_request(r, outcome) ==
    /\ lb_req[r].pc = "forward"
    /\ LET backend == lb_req[r].selected[Len(lb_req[r].selected)]
       IN  lb_req' = [lb_req EXCEPT
                        ![r].pc = "done",
                        ![r].contacted = Append(@, backend),
                        ![r].upstream = outcome,
                        ![r].answer = ProxyResponse(outcome)]
    /\ UNCHANGED <<lb_index, ingressRest>>

IngressNext ==
    \/ \E r \in Requests : select_backend(r)
    \/ \E r \in Requests, outcome \in BackendOutcomes : forward_request(r, outcome)

(* The ingress alone, with every other component as constructed. *)
IngressSpec == Init /\ [][IngressNext]_vars

----------------------------------------------------------------------------
(***************************************************************************)
(* The two routes of the gateway that use the database, src/gateway/src/   *)
(* main.rs.  Every call h of one of them goes pool.get, prepare, then      *)
(* query or execute.  An unwrap() of an Err panics in the task that serves *)
(* the connection: the handler ends and no response is written.            *)
(***************************************************************************)
handlerRest == <<env, calc, selection, classified, pubVars, workerVars, lb_index, lb_req, probed>>

Routes == {"payments-summary", "purge-payments"}

(* echo matches the route and calls its handler. *)
db_request(h, route) ==
    /\ dbh[h].pc = "new"
    /\ dbh' = [dbh EXCEPT ![h].route = route, ![h].pc = "get"]
    /\ UNCHANGED handlerRest

(* pool.get().await: Err is answered with 500 on both routes. *)
pool_get(h, ok) ==
    /\ dbh[h].pc = "get"
    /\ dbh' = IF ok
              THEN [dbh EXCEPT ![h].pc = "prepare"]
              ELSE [dbh EXCEPT ![h].pc = "responded", ![h].failed = "get",
                               ![h].status = 500]
    /\ UNCHANGED handlerRest

(* client.prepare(..).await.unwrap() on both routes. *)
db_prepare(h, ok) ==
    /\ dbh[h].pc = "prepare"
    /\ dbh' = IF ok
              THEN [dbh EXCEPT ![h].pc = "execute"]
              ELSE [dbh EXCEPT ![h].pc = "panicked", ![h].failed = "prepare"]
    /\ UNCHANGED handlerRest

(***************************************************************************)
(* The summary's client.query(..).await.unwrap(), and the purge's          *)
(* if let Err(_) = client.execute(..).await { 500 }.                       *)
(***************************************************************************)
db_execute(h, ok) ==
    /\ dbh[h].pc = "execute"
    /\ dbh' = IF ok
              THEN [dbh EXCEPT ![h].pc = "responded", ![h].status = 200]
              ELSE IF dbh[h].route = "purge-payments"
                   THEN [dbh EXCEPT ![h].pc = "responded", ![h].failed = "execute",
                                    ![h].status = 500]
                   ELSE [dbh EXCEPT ![h].pc = "panicked", ![h].failed = "execute"]
    /\ UNCHANGED handlerRest

HandlerNext ==
    \/ \E h \in Queries, route \in Routes : db_request(h, route)
    \/ \E h \in Queries, ok \in BOOLEAN : pool_get(h, ok)
    \/ \E h \in Queries, ok \in BOOLEAN : db_prepare(h, ok)
    \/ \E h \in Queries, ok \in BOOLEAN : db_execute(h, ok)

(* The database routes alone, with every other component as constructed. *)
HandlerSpec == Init /\ [][HandlerNext]_vars

----------------------------------------------------------------------------
(***************************************************************************)
(* Store::insert_loop step by step, src/worker/src/store.rs: the drain by  *)
(* try_recv, the write, the sleep.  Workers push Payments while it runs.   *)
(* The channel is never closed: the Store keeps its sender.                *)
(***************************************************************************)
storeRest == <<env, calc, selection, classified, pubVars, lb_index, lb_req, dbh, probed,
               popped, posted, sock, poolVars, now, healths, wire_rc, entered,
               attempts, retries, fate, acceptVars>>

(* A worker calls push_payment with the Payment of message i. *)
store_push(i) ==
    /\ pushed[i] = 0
    /\ push_payment(Payment(Message(i, 0), "Default"))
    /\ UNCHANGED <<db, storeVars, storeRest>>

(* The inner loop: one receiver.try_recv(), an item or Empty. *)
try_recv ==
    /\ store_pc = "drain"
    /\ IF store_chan # <<>>
       THEN /\ buffer' = Append(buffer, Head(store_chan))
            /\ store_chan' = Tail(store_chan)
            /\ UNCHANGED store_pc
       ELSE /\ store_pc' = "write"
            /\ UNCHANGED <<buffer, store_chan>>
    /\ UNCHANGED <<db, pushed, handed, storeRest>>

BufferAfterInsert_Keep(b) == b

(* buffer.pop() of the single-row branch leaves the buffer without its last. *)
BufferAfterInsert(b) == SubSeq(b, 1, Len(b) - 1)

(***************************************************************************)
(* After the drain: insert_payment for one row, batch_payments for a taken *)
(* buffer of more, nothing for none; the result is ignored.  db_ok is      *)
(* whether the database took the rows.                                     *)
(***************************************************************************)
store_write(db_ok) ==
    /\ store_pc = "write"
    /\ IF Len(buffer) = 1
       THEN LET payment == buffer[Len(buffer)]
            IN  /\ buffer' = BufferAfterInsert(buffer)
                /\ handed' = Append(handed, [op |-> "insert_payment",
                                             rows |-> <<payment>>])
                /\ db' = IF db_ok THEN db (+) SeqBag(<<payment>>) ELSE db
       ELSE IF Len(buffer) > 1
       THEN LET payments == buffer
            IN  /\ buffer' = <<>>
                /\ handed' = Append(handed, [op |-> "batch_payments",
                                             rows |-> payments])
                /\ db' = IF db_ok THEN db (+) SeqBag(payments) ELSE db
       ELSE UNCHANGED <<buffer, handed, db>>
    /\ store_pc' = "sleep"
    /\ UNCHANGED <<store_chan, pushed, storeRest>>

(* tokio::time::sleep(1 ms) is over and the next drain starts. *)
store_sleep ==
    /\ store_pc = "sleep"
    /\ store_pc' = "drain"
    /\ UNCHANGED <<store_chan, db, pushed, buffer, handed, storeRest>>

StoreNext ==
    \/ \E i \in Msgs : store_push(i)
    \/ try_recv
    \/ \E db_ok \in BOOLEAN : store_write(db_ok)
    \/ store_sleep

(* The store alone, with workers that push each Payment once. *)
StoreSpec == Init /\ [][StoreNext]_vars

----------------------------------------------------------------------------
(***************************************************************************)
(* The receiver's connections, src/worker/src/receiver.rs.  Every          *)
(* connection s a publisher opens gets a task spawned by accept_loop; the  *)
(* task acquires a permit of conn_sem and then runs read_producer, and the *)
(* permit is dropped when the task returns.  A frame written before the    *)
(* task reads waits in the socket.  The connections Conns above are        *)
(* connections whose task holds a permit.                                  *)
(***************************************************************************)
acceptRest == <<env, calc, selection, classified, pubVars, posted, sock, poolVars, now,
                healths, store_chan, db, historyVars, popped, storeVars, lb_index,
                lb_req, dbh, probed>>

(* accept_loop: listener.accept() returned connection s and its task is spawned. *)
accept_loop(s) ==
    /\ stream[s].pc = "none"
    /\ stream' = [stream EXCEPT ![s].pc = "acquire"]
    /\ UNCHANGED <<conn_sem, acceptRest>>

(* The spawned task: semaphore.acquire().await, then read_producer starts. *)
acquire_permit(s) ==
    /\ stream[s].pc = "acquire"
    /\ conn_sem > 0
    /\ conn_sem' = conn_sem - 1
    /\ stream' = [stream EXCEPT ![s].pc = "read"]
    /\ UNCHANGED acceptRest

(* Publisher::publish writes a frame and its newline to connection s. *)
write_frame(s) ==
    /\ stream[s].pc \in {"acquire", "read"}
    /\ ~stream[s].hung_up
    /\ stream[s].written < NumFrames
    /\ stream' = [stream EXCEPT ![s].written = @ + 1]
    /\ UNCHANGED <<conn_sem, acceptRest>>

(* The publisher shuts connection s down or drops it. *)
hang_up(s) ==
    /\ stream[s].pc \in {"acquire", "read"}
    /\ ~stream[s].hung_up
    /\ stream' = [stream EXCEPT ![s].hung_up = TRUE]
    /\ UNCHANGED <<conn_sem, acceptRest>>

(* read_producer: read_until brought a frame, which goes to submit if not empty. *)
read_frame(s) ==
    /\ stream[s].pc = "read"
    /\ stream[s].read < stream[s].written
    /\ stream' = [stream EXCEPT ![s].read = @ + 1]
    /\ UNCHANGED <<conn_sem, acceptRest>>

(***************************************************************************)
(* read_producer: read_until returned Ok(0) at the end of a connection     *)
(* that was hung up, or an error; the task returns and its permit drops.   *)
(***************************************************************************)
read_end(s, outcome) ==
    /\ stream[s].pc = "read"
    /\ outcome = "Ok(0)" => stream[s].hung_up /\ stream[s].read = stream[s].written
    /\ stream' = [stream EXCEPT ![s].pc = IF outcome = "Ok(0)" THEN "done" ELSE "failed"]
    /\ conn_sem' = conn_sem + 1
    /\ UNCHANGED acceptRest

AcceptNext ==
    \/ \E s \in Streams : accept_loop(s)
    \/ \E s \in Streams : acquire_permit(s)
    \/ \E s \in Streams : write_frame(s)
    \/ \E s \in Streams : hang_up(s)
    \/ \E s \in Streams : read_frame(s)
    \/ \E s \in Streams, outcome \in {"Ok(0)", "Err"} : read_end(s, outcome)

(***************************************************************************)
(* What the tokio runtime gives the tasks of the receiver: accept_loop     *)
(* accepts every connection, a task reads the frames its connection holds  *)
(* and sees its end, and the semaphore, which serves its waiters in order, *)
(* gives a permit to a task for which one is free again and again.         *)
(***************************************************************************)
AcceptFairness ==
    \A s \in Streams :
        /\ WF_vars(accept_loop(s))
        /\ SF_vars(acquire_permit(s))
        /\ WF_vars(read_frame(s))
        /\ WF_vars(read_end(s, "Ok(0)"))

AcceptSpec == Init /\ [][AcceptNext]_vars /\ AcceptFairness

----------------------------------------------------------------------------
(***************************************************************************)
(* Where a message is.  A place is a slot of a worker queue, the processor *)
(* call a worker awaits, a slot of the scheduler's channel or a slot of    *)
(* the heap.                                                               *)
(***************************************************************************)
PlacesOf(i) ==
    UNION {{<<"queue", w, k>> : k \in {n \in 1 .. Len(queues[w]) :
                                          queues[w][n].correlation_id = i}} :
           w \in Workers}
    \cup {<<"cur", w, 0>> : w \in {v \in Workers : cur[v].msg.correlation_id = i}}
    \cup {<<"chan", 0, k>> : k \in {n \in 1 .. Len(retry_chan) :
                                       retry_chan[n].msg.correlation_id = i}}
    \cup {<<"heap", 0, k>> : k \in {n \in 1 .. Len(heap) :
                                       heap[n].msg.correlation_id = i}}

(* The RetryItems the scheduler's channel and the heap hold. *)
PendingItems ==
    {retry_chan[k] : k \in 1 .. Len(retry_chan)} \cup {heap[k] : k \in 1 .. Len(heap)}

(* The messages the worker queues and the calls in flight hold. *)
QueuedMsgs ==
    UNION {{queues[w][k] : k \in 1 .. Len(queues[w])} : w \in Workers}
    \cup {cur[w].msg : w \in {v \in Workers : cur[v] # NoWork}}

(* The ends C1 names: stored, dropped at MAX_RETRIES, scheduler channel full. *)
NamedEnds == {"stored", "max_retries", "retry_full"}

(* The ends the code has besides: a full store channel after the processor *)
(* accepted the payment, and a full worker queue at resubmission.          *)
OtherEnds == {"store_full", "resubmit_full"}

(***************************************************************************)
(* C1 as stated: a message that entered a worker queue and is in no place  *)
(* any more ended in exactly one of the three named ends, and a message    *)
(* that is still in some place has not ended.                              *)
(***************************************************************************)
C1_ThreeEnds ==
    \A i \in Msgs :
        entered[i] =>
            IF PlacesOf(i) = {}
            THEN Len(fate[i]) = 1 /\ fate[i][1] \in NamedEnds
            ELSE fate[i] = <<>>

(***************************************************************************)
(* C1, amended: a message that entered a worker queue and is in no place   *)
(* any more ended in exactly one of five ends - the three named ones, a    *)
(* Payment dropped at a full store channel, or a resubmission dropped at a *)
(* full worker queue - and a message still in some place has not ended.    *)
(***************************************************************************)
C1_FiveEnds ==
    \A i \in Msgs :
        entered[i] =>
            IF PlacesOf(i) = {}
            THEN Len(fate[i]) = 1 /\ fate[i][1] \in NamedEnds \cup OtherEnds
            ELSE fate[i] = <<>>

(* Each of the five ends has happened to some message that entered. *)
C1_Witness ==
    /\ \E i \in Msgs : entered[i] /\ fate[i] = <<"store_full">>
    /\ \E i \in Msgs : entered[i] /\ fate[i] = <<"max_retries">>
    /\ \E i \in Msgs : entered[i] /\ fate[i] = <<"stored">>

(***************************************************************************)
(* C4: a message pushes at most one Payment to the store, is in at most    *)
(* one place at a time, and once its processor call succeeded (the Payment *)
(* was pushed or dropped at the full store channel) it is in no place.     *)
(***************************************************************************)
C4_AtMostOnce ==
    \A i \in Msgs :
        /\ pushed[i] <= 1
        /\ Cardinality(PlacesOf(i)) <= 1
        /\ (\E k \in 1 .. Len(fate[i]) : fate[i][k] \in {"stored", "store_full"})
              => /\ PlacesOf(i) = {}
                 /\ Len(fate[i]) = 1

(* A message succeeded on its second attempt, after a turn through the heap. *)
C4_Witness ==
    \E i \in Msgs :
        /\ pushed[i] = 1
        /\ attempts[i] = 2
        /\ retries[i] = 1
        /\ \E j \in Msgs : j # i /\ PlacesOf(j) # {}

(***************************************************************************)
(* The policy C2 states: Default while it is not failing, Fallback when    *)
(* Default is failing and Fallback is not, an error when both are failing. *)
(***************************************************************************)
TriStatePolicy(hs) ==
    IF ~IsFailing(hs["Default"]) THEN "Default"
    ELSE IF ~IsFailing(hs["Fallback"]) THEN "Fallback"
    ELSE "Err"

(* Worker w takes the head of its queue in this step. *)
WorkerTakes(w) ==
    /\ cur[w] = NoWork
    /\ queues[w] # <<>>
    /\ queues'[w] = Tail(queues[w])

(***************************************************************************)
(* C2 as stated: whenever a worker takes a message, the processor it calls *)
(* is the one the tri-state policy names for the health map of that        *)
(* moment, and the message goes to retry() without a call only when both   *)
(* processors are failing.                                                 *)
(***************************************************************************)
C2_TriState ==
    [][\A w \in Workers :
         WorkerTakes(w) =>
            IF TriStatePolicy(healths) = "Err"
            THEN cur'[w] = NoWork
            ELSE cur'[w].processor = TriStatePolicy(healths)]_vars

C5_NeverAboveMax ==
    /\ \A i \in Msgs :
          wire_rc[i] = 0 =>
             retries[i] <= MAX_RETRIES /\ attempts[i] <= MAX_RETRIES + 1
    /\ \A item \in PendingItems : item.msg.retry_count <= MAX_RETRIES
    /\ \A msg \in QueuedMsgs : msg.retry_count <= MAX_RETRIES

(***************************************************************************)
(* C5, amended: retry() schedules a message at most MAX_RETRIES minus the  *)
(* retry_count it came with times (never, if it came with MAX_RETRIES or   *)
(* more), so a message that came with 0 is attempted at most               *)
(* MAX_RETRIES + 1 times; no RetryItem carries more than MAX_RETRIES; and  *)
(* a message in a worker queue or in a call carries more than MAX_RETRIES  *)
(* only if it came from the wire with that count and was never retried.    *)
(***************************************************************************)
C5_BoundedRetries ==
    /\ \A i \in Msgs :
          /\ retries[i] <= Max(MAX_RETRIES - wire_rc[i], 0)
          /\ attempts[i] <= retries[i] + 1
    /\ \A item \in PendingItems :
          /\ item.msg.retry_count <= MAX_RETRIES
          /\ item.msg.retry_count =
                wire_rc[item.msg.correlation_id] + retries[item.msg.correlation_id]
    /\ \A msg \in QueuedMsgs :
          msg.retry_count > MAX_RETRIES =>
             /\ msg.retry_count = wire_rc[msg.correlation_id]
             /\ retries[msg.correlation_id] = 0

(* A message that came with 0 was scheduled 50 times and dropped at the 51st *)
(* failed attempt.                                                          *)
C5_Witness ==
    \E i \in Msgs :
        /\ wire_rc[i] = 0
        /\ retries[i] = MAX_RETRIES
        /\ attempts[i] = MAX_RETRIES + 1
        /\ fate[i] = <<"max_retries">>

(***************************************************************************)
(* C6: whenever the scheduler pops an item off the heap, the clock has     *)
(* reached the item's next_attempt.                                        *)
(***************************************************************************)
C6_NotBeforeNextAttempt ==
    [][\A k \in 1 .. Len(heap) :
          (Len(heap') = Len(heap) - 1 /\ heap' = RemoveAt(heap, k))
             => heap[k].next_attempt <= now]_vars

(* A message is back in a worker queue after its wait in the heap. *)
C6_Witness ==
    /\ now > 0
    /\ heap = <<>>
    /\ \E msg \in QueuedMsgs :
          /\ retries[msg.correlation_id] = 1
          /\ msg.retry_count = wire_rc[msg.correlation_id] + 1

(* The delay retry() gave an item: next_attempt minus the instant of the call. *)
DelayOf(item) == item.next_attempt - item.called_at

(* The pending items of messages that came with retry_count 0 and now carry *)
(* retry_count k.                                                           *)
FreshItems(k) ==
    {item \in PendingItems :
        /\ wire_rc[item.msg.correlation_id] = 0
        /\ item.msg.retry_count = k}

(***************************************************************************)
(* C8 as stated: the first retry of a fresh message waits between 400 and  *)
(* 600 ms, the second between 800 and 1200 ms.                             *)
(***************************************************************************)
C8_FirstDelays ==
    /\ \A item \in FreshItems(1) : 400 <= DelayOf(item) /\ DelayOf(item) <= 600
    /\ \A item \in FreshItems(2) : 800 <= DelayOf(item) /\ DelayOf(item) <= 1200

(***************************************************************************)
(* C8, amended: retry() computes the delay from the retry_count it has     *)
(* just incremented, so the first retry of a fresh message waits between   *)
(* 800 and 1200 ms (1190 ms) and the second between 1600 and 2400 ms       *)
(* (2035 ms).                                                              *)
(***************************************************************************)
C8_FirstDelaysDoubled ==
    /\ \A item \in FreshItems(1) :
          /\ 800 <= DelayOf(item) /\ DelayOf(item) <= 1200
          /\ DelayOf(item) = 1190
    /\ \A item \in FreshItems(2) :
          /\ 1600 <= DelayOf(item) /\ DelayOf(item) <= 2400
          /\ DelayOf(item) = 2035

(* With both processors failing, a fresh message is scheduled a second time. *)
C8_Witness ==
    /\ IsFailing(healths["Default"])
    /\ IsFailing(healths["Fallback"])
    /\ \E item \in FreshItems(2) :
          /\ item.called_at = 1190
          /\ attempts[item.msg.correlation_id] = 2

(***************************************************************************)
(* C9: no worker queue ever holds more than BUFFER_SIZE / N messages, N    *)
(* the number of workers.                                                  *)
(***************************************************************************)
C9_QueueBound ==
    \A w \in Workers : Len(queues[w]) * NumWorkers <= BUFFER_SIZE

(* A full worker queue turned away a resubmission of the scheduler. *)
C9_Witness ==
    /\ \E w \in Workers : Len(queues[w]) = BUFFER_SIZE \div NumWorkers
    /\ \E i \in Msgs : fate[i] = <<"resubmit_full">>

(* The sum of two u32 kept as 16-bit limbs <<hi, lo>>, modulo 2^32. *)
AddLimbs(a, b) ==
    <<(a[1] + b[1] + ((a[2] + b[2]) \div 65536)) % 65536, (a[2] + b[2]) % 65536>>

(* k * 1103515245 modulo 2^32 in 16-bit limbs, by doubling and addition. *)
RECURSIVE TimesMultiplier(_)
TimesMultiplier(k) ==
    IF k = 0 THEN <<0, 0>>
    ELSE LET half == TimesMultiplier(k \div 2)
         IN  IF k % 2 = 0 THEN AddLimbs(half, half)
             ELSE AddLimbs(AddLimbs(half, half), <<16838, 20077>>)

(* (k * 1103515245 + 12345) mod 2^32, reduced modulo m. *)
JitterOf(k, m) ==
    LET p == AddLimbs(TimesMultiplier(k), <<0, 12345>>)
    IN  ((p[1] % m) * (65536 % m) + (p[2] % m)) % m

(* d(k) = min(500 * 2^min(k, 10), 2000) *)
NominalDelay(k) == Min(500 * 2 ^ Min(k, 10), 2000)

(***************************************************************************)
(* C7: for a retry_count k from 1 to MAX_RETRIES, calc_backoff(k) lies     *)
(* between 0.8 d(k) and 1.2 d(k); it is d(k) less the jitter range         *)
(* 0.2 d(k) plus (k * 1103515245 + 12345) mod 2^32 reduced modulo twice    *)
(* the jitter range; and the largest intermediate value, 500 * 2^min(k,10),*)
(* stays far below 2^64.                                                   *)
(***************************************************************************)
C7_DelayInRange ==
    (calc.result # <<>> /\ calc.retry_count \in 1 .. MAX_RETRIES) =>
        LET k      == calc.retry_count
            d      == NominalDelay(k)
            range  == d \div 5
            result == calc.result[1]
        IN  /\ 8 * d <= 10 * result
            /\ 10 * result <= 12 * d
            /\ result = (d - range) + JitterOf(k, 2 * range)
            /\ 500 * 2 ^ Min(k, 10) <= 512000

(* calc_backoff(50) returned 2243, and 2243 - 1600 is the jitter of 50. *)
C7_Witness ==
    /\ calc.retry_count = MAX_RETRIES
    /\ calc.result = <<2243>>

(***************************************************************************)
(* C10: the idle connections in the publisher's channel never number more  *)
(* than max_conns.                                                         *)
(***************************************************************************)
C10_PoolBound == Len(conn_pool) <= MAX_CONNS

(* The channel is full and turned away a connection that release() sent. *)
C10_Witness ==
    /\ Len(conn_pool) = MAX_CONNS
    /\ \E p \in Publishes : pub[p].released = "chan_full"

(***************************************************************************)
(* C11: pool_size, read as the unsigned word it is, never exceeds          *)
(* max_conns.                                                              *)
(***************************************************************************)
C11_SizeBound == UsizeLess(pool_size, MAX_CONNS + 1)

(***************************************************************************)
(* C14: POST /payments answers 202 exactly when publish() returned Ok and  *)
(* 429 when it returned Timeout, ConnectionFailed or WriteError; the route *)
(* writes no other status.                                                 *)
(***************************************************************************)
C14_AcceptedOrTooMany ==
    \A p \in Publishes :
        /\ pub[p].status \in {0, 202, 429}
        /\ pub[p].status = 202 <=> (pub[p].pc = "answered" /\ pub[p].result = "Ok")
        /\ pub[p].status = 429 <=>
              (/\ pub[p].pc = "answered"
               /\ pub[p].result \in {"Timeout", "ConnectionFailed", "WriteError"})
        /\ pub[p].pc = "answered" => pub[p].status # 0

(* One request was answered 202 and one each 429 for the three errors. *)
C14_Witness ==
    /\ \E p \in Publishes : pub[p].status = 202
    /\ \E p, q \in Publishes :
          /\ pub[p].status = 429 /\ pub[p].result = "WriteError"
          /\ pub[q].status = 429 /\ pub[q].result \in {"Timeout", "ConnectionFailed"}

(* The requests for which a backend was selected. *)
Forwarded == {r \in Requests : lb_req[r].pc # "new"}

(* How often backend b was selected. *)
Hits(b) ==
    Cardinality({<<r, k>> \in Requests \X (1 .. NumRequests) :
                    /\ k <= Len(lb_req[r].selected)
                    /\ lb_req[r].selected[k] = b})

(***************************************************************************)
(* C12: every request makes exactly one fetch-and-increment, and after M   *)
(* selections over B backends, each backend was selected floor(M/B) or     *)
(* ceil(M/B) times, whatever requests are in flight at once.               *)
(***************************************************************************)
C12_Balanced ==
    LET M == Cardinality(Forwarded)
    IN  /\ lb_index = M
        /\ \A r \in Requests :
              Len(lb_req[r].selected) = IF r \in Forwarded THEN 1 ELSE 0
        /\ \A b \in Backends :
              Hits(b) \in {M \div NumBackends,
                           (M + NumBackends - 1) \div NumBackends}

(* Every request has its backend, and two of them are in flight at once. *)
C12_Witness ==
    /\ Forwarded = Requests
    /\ Cardinality({r \in Requests : lb_req[r].pc = "forward"}) >= 2
    /\ \E b \in Backends : Hits(b) >= 1

(***************************************************************************)
(* C13: a request contacts exactly one backend, the selected one; when     *)
(* that fails the client gets an empty 502 and no other backend is tried,  *)
(* and when it succeeds the client gets the backend's response unchanged.  *)
(***************************************************************************)
C13_OneBackend ==
    \A r \in Requests :
        /\ Len(lb_req[r].contacted) <= 1
        /\ lb_req[r].pc = "done" =>
              /\ lb_req[r].contacted = lb_req[r].selected
              /\ Len(lb_req[r].contacted) = 1
              /\ IF lb_req[r].upstream = <<>>
                 THEN lb_req[r].answer = <<[status |-> 502, body |-> ""]>>
                 ELSE lb_req[r].answer = lb_req[r].upstream

(* One request got a 502 for a failure, the next the answer of its backend. *)
C13_Witness ==
    \E r, q \in Requests :
        /\ lb_req[r].pc = "done" /\ lb_req[r].upstream = <<>>
        /\ lb_req[r].answer[1].status = 502
        /\ lb_req[q].pc = "done" /\ lb_req[q].upstream # <<>>
        /\ lb_req[q].contacted # lb_req[r].contacted

(***************************************************************************)
(* C15: a call of the summary or the purge route in which pool.get,        *)
(* prepare or the query failed has ended with a response of status 500.    *)
(***************************************************************************)
C15_FailureIs500 ==
    \A h \in Queries :
        dbh[h].failed # "none" =>
            /\ dbh[h].pc = "responded"
            /\ dbh[h].status = 500

(***************************************************************************)
(* C16: when a processor confirmed a payment and the store channel is      *)
(* full, the step of the worker that ends in "store_full" frees the worker *)
(* at once, leaves the store channel as it was, hands nothing to the retry *)
(* scheduler, and the message is in no place afterwards.                   *)
(***************************************************************************)
C16_FullStoreDrops ==
    [][\A w \in Workers, i \in Msgs :
          (/\ cur[w] # NoWork
           /\ cur[w].msg.correlation_id = i
           /\ cur'[w] = NoWork
           /\ fate'[i] = Append(fate[i], "store_full"))
          => /\ Len(store_chan) = STORE_CHANNEL_SIZE
             /\ store_chan' = store_chan
             /\ pushed' = pushed
             /\ retry_chan' = retry_chan
             /\ retries' = retries
             /\ heap' = heap
             /\ queues' = queues
             /\ (PlacesOf(i))' = {}]_vars

(* A confirmed payment was dropped at a full store channel. *)
C16_Witness ==
    \E i \in Msgs :
        /\ fate[i] = <<"store_full">>
        /\ pushed[i] = 0
        /\ PlacesOf(i) = {}
        /\ Len(store_chan) = STORE_CHANNEL_SIZE
        /\ \A k \in 1 .. Len(store_chan) : store_chan[k].correlation_id # i

(***************************************************************************)
(* C17: a submission picks the queue of the thread's counter; when that    *)
(* queue is full the step ends in "submit_full" (or "resubmit_full" when   *)
(* the scheduler submits), no queue changes and the message is in no place *)
(* afterwards; otherwise only the picked queue grows, by one message.      *)
(***************************************************************************)
C17_FullQueueDrops ==
    [][\A t \in Threads :
          counter'[t] # counter[t] =>
             LET worker_index == counter[t]
             IN  IF Len(queues[worker_index]) = WorkerChannelSize
                 THEN /\ queues' = queues
                      /\ \E i \in Msgs :
                            /\ \/ fate'[i] = Append(fate[i], "submit_full")
                               \/ fate'[i] = Append(fate[i], "resubmit_full")
                            /\ (PlacesOf(i))' = {}
                 ELSE /\ Len(queues'[worker_index]) = Len(queues[worker_index]) + 1
                      /\ \A w \in Workers \ {worker_index} : queues'[w] = queues[w]]_vars

(* A message was dropped at a full queue while another queue had room. *)
C17_Witness ==
    \E i \in Msgs, w \in Workers :
        /\ fate[i] = <<"submit_full">>
        /\ entered[i] = FALSE
        /\ PlacesOf(i) = {}
        /\ Len(queues[w]) < WorkerChannelSize

(***************************************************************************)
(* C18: every probe made for a health entry went to that processor's own   *)
(* URL, so an entry is only ever updated from its own processor.           *)
(***************************************************************************)
C18_OwnUrl ==
    \A k \in 1 .. Len(probed.last) :
        probed.last[k].url = processor_urls[probed.last[k].entry]

(***************************************************************************)
(* C19: a step that is a failed probe leaves healths as it was; a step     *)
(* that is a successful probe for an entry sets that entry to the probed   *)
(* values and leaves the other entry as it was.                            *)
(***************************************************************************)
C19_ProbeFrame ==
    [][probed'.round # probed.round =>
         LET rec == probed'.last[1]
         IN  IF rec.outcome.ok
             THEN /\ healths'[rec.entry] =
                        [failing |-> rec.outcome.failing,
                         min_response_time |-> rec.outcome.min_response_time]
                  /\ \A p \in ProcessorType \ {rec.entry} : healths'[p] = healths[p]
             ELSE healths' = healths]_vars

(* A failed probe has just left an entry that says failing as it was. *)
C19_Witness ==
    /\ probed.last # <<>>
    /\ ~probed.last[1].outcome.ok
    /\ healths[probed.last[1].entry].failing
    /\ \E p \in ProcessorType : ~healths[p].failing

(***************************************************************************)
(* C20: the health map has exactly the keys Default and Fallback.          *)
(***************************************************************************)
C20_TwoKeys == DOMAIN healths = ProcessorType

(* Successful and failed probes were made and both entries were written. *)
C20_Witness ==
    /\ probed.last # <<>>
    /\ ~probed.last[1].outcome.ok
    /\ \A p \in ProcessorType : healths[p].failing

(***************************************************************************)
(* C21: next_processor selects Default exactly when the Default entry has  *)
(* failing = false and min_response_time from 0 to 50; with failing =      *)
(* false it does not select it for any value from 51 to 65535, and with    *)
(* failing = true it never does.                                           *)
(***************************************************************************)
C21_FailingThreshold ==
    selection.result # <<>> =>
        LET health  == selection.healths["Default"]
            default == selection.result[1] = "Default"
        IN  /\ (~health.failing /\ health.min_response_time \in 0 .. 50) => default
            /\ (~health.failing /\ health.min_response_time \in 51 .. 65535) => ~default
            /\ health.failing => ~default

(* Default was selected at min_response_time = 50 and failing = false. *)
C21_Witness ==
    /\ selection.result = <<"Default">>
    /\ selection.healths["Default"] = [failing |-> FALSE, min_response_time |-> 50]

(***************************************************************************)
(* C23: process gives InvalidPayment for 422; Unavailable for 408, 429,    *)
(* every status >= 500 and a connect or transport failure; success for     *)
(* every other status.                                                     *)
(***************************************************************************)
C23_Classification ==
    classified.result # <<>> =>
        LET status == classified.status
            result == classified.result[1]
        IN  /\ status = 422 => result = "InvalidPayment"
            /\ (status \in {408, 429} \/ status >= 500) => result = "Unavailable"
            /\ status = 0 => result = "Unavailable"
            /\ (status \in 100 .. 499 /\ status \notin {408, 422, 429}) => result = "Ok"

(* A 404 was classified as success. *)
C23_Witness ==
    /\ classified.status = 404
    /\ classified.result = <<"Ok">>

(* The ends that are an overflow of a worker queue or of the scheduler's channel. *)
OverflowEnds == {"submit_full", "resubmit_full", "retry_full"}

(* The messages every attempt of which is answered 422. *)
AlwaysInvalid == {i \in env.msgs : env.answers[i] = {422}}

(***************************************************************************)
(* C22: a fresh message whose every attempt is answered 422 never has a    *)
(* Payment pushed to the store; under fair scheduling it comes to an end;  *)
(* and unless a queue overflowed, that end is the drop by retry() after    *)
(* exactly MAX_RETRIES scheduled retries and MAX_RETRIES + 1 attempts.     *)
(***************************************************************************)
C22_InvalidRetried ==
    /\ [](\A i \in AlwaysInvalid :
            /\ pushed[i] = 0
            /\ (fate[i] # <<>> /\ wire_rc[i] = 0
                /\ fate[i][1] \notin OverflowEnds \cup {"empty", "parse_error"})
               => /\ fate[i] = <<"max_retries">>
                  /\ retries[i] = MAX_RETRIES
                  /\ attempts[i] = MAX_RETRIES + 1)
    /\ \A i \in Msgs :
          (i \in AlwaysInvalid /\ posted[i])
             ~> (fate[i] # <<>> /\ PlacesOf(i) = {})

(* The message answered 422 was retried 50 times and dropped; nothing stored. *)
C22_Witness ==
    \E i \in AlwaysInvalid :
        /\ fate[i] = <<"max_retries">>
        /\ retries[i] = MAX_RETRIES
        /\ attempts[i] = MAX_RETRIES + 1
        /\ pushed[i] = 0
        /\ \A k \in 1 .. Len(store_chan) : store_chan[k].correlation_id # i

(* The retry_count values the copies of message i carry, wherever they are. *)
RetryCounts(i) ==
    {msg.retry_count : msg \in {m \in QueuedMsgs : m.correlation_id = i}}
    \cup {item.msg.retry_count :
            item \in {it \in PendingItems : it.msg.correlation_id = i}}

(***************************************************************************)
(* C24: over any step, the retry_count a message carries stays as it is    *)
(* unless the step is a scheduled retry of that message, and then it grows *)
(* by exactly one; and what it carries is what it came with plus the       *)
(* number of its scheduled retries.                                        *)
(***************************************************************************)
C24_RetryCountMonotone ==
    [][\A i \in Msgs :
          /\ \A a \in RetryCounts(i), b \in (RetryCounts(i))' :
                \/ b = a /\ retries'[i] = retries[i]
                \/ b = a + 1 /\ retries'[i] = retries[i] + 1
          /\ \A b \in (RetryCounts(i))' : b = wire_rc'[i] + retries'[i]]_vars

(* A message that came with 0 waits in a worker queue with retry_count 50. *)
C24_Witness ==
    \E w \in Workers :
        /\ queues[w] # <<>>
        /\ Head(queues[w]).retry_count = MAX_RETRIES
        /\ wire_rc[Head(queues[w]).correlation_id] = 0
        /\ retries[Head(queues[w]).correlation_id] = MAX_RETRIES

(***************************************************************************)
(* C25: whenever the scheduler pops an item and resubmits it, no item that *)
(* was sent to the scheduler and is not yet resubmitted - in its channel   *)
(* or in the heap - has a strictly smaller next_attempt.                   *)
(***************************************************************************)
C25_InOrder ==
    [][\A k \in 1 .. Len(heap) :
          (Len(heap') = Len(heap) - 1 /\ heap' = RemoveAt(heap, k))
             => \A item \in PendingItems :
                   item.next_attempt >= heap[k].next_attempt]_vars

(***************************************************************************)
(* C26: every pop removes an item whose next_attempt is at most that of    *)
(* every item in the heap, and the next_attempts popped within one drain   *)
(* are in non-decreasing order.                                            *)
(***************************************************************************)
C26_MinHeap ==
    /\ [][\A k \in 1 .. Len(heap) :
             (Len(heap') = Len(heap) - 1 /\ heap' = RemoveAt(heap, k))
                => \A j \in 1 .. Len(heap) :
                      heap[k].next_attempt <= heap[j].next_attempt]_vars
    /\ [](\A m, n \in 1 .. Len(popped) : m < n => popped[m] <= popped[n])

(* One drain popped two items, the earlier next_attempt first. *)
C26_Witness ==
    /\ Len(popped) = 2
    /\ popped[1] < popped[2]

(* A retry item of message i is in the scheduler's inbound channel. *)
InChan(i) == \E k \in 1 .. Len(retry_chan) : retry_chan[k].msg.correlation_id = i

(* A retry item of message i is in the heap. *)
InHeap(i) == \E k \in 1 .. Len(heap) : heap[k].msg.correlation_id = i

(***************************************************************************)
(* C27: under fair scheduling a retry item in the scheduler's channel gets *)
(* into the heap, and an item in the heap leaves it by a resubmission: its *)
(* message is then in a worker queue or with a worker, or has ended.  The  *)
(* step that pops an item comes at or after its next_attempt and submits   *)
(* its message once: one queue gains it, or no queue changes and the       *)
(* message ends as "resubmit_full"; no message is in two places.  With an  *)
(* empty heap the scheduler leaves its select only by a receive.           *)
(***************************************************************************)
C27_EventuallyResubmitted ==
    /\ \A i \in Msgs : InChan(i) ~> InHeap(i)
    /\ \A i \in Msgs :
          InHeap(i) ~> (~InHeap(i) /\ ~InChan(i)
                        /\ (PlacesOf(i) # {} \/ fate[i] # <<>>))
    /\ [][\A k \in 1 .. Len(heap) :
             (Len(heap') = Len(heap) - 1 /\ heap' = RemoveAt(heap, k))
                => LET msg == heap[k].msg
                   IN  /\ heap[k].next_attempt <= now
                       /\ \/ \E w \in Workers :
                               /\ queues'[w] = Append(queues[w], msg)
                               /\ \A v \in Workers \ {w} : queues'[v] = queues[v]
                          \/ /\ queues' = queues
                             /\ fate'[msg.correlation_id] =
                                  Append(fate[msg.correlation_id], "resubmit_full")]_vars
    /\ [](\A i \in Msgs : Cardinality(PlacesOf(i)) <= 1)
    /\ [][(sched_pc = "select" /\ heap = <<>> /\ sched_pc' # "select")
             => (retry_chan # <<>> /\ heap' = <<Head(retry_chan)>>
                 /\ retry_chan' = Tail(retry_chan))]_vars

(* A resubmitted message waits in a worker queue while another item is in the heap. *)
C27_Witness ==
    \E i, j \in Msgs :
        /\ i # j
        /\ InHeap(j)
        /\ retries[i] = 1
        /\ \E w \in Workers :
              /\ queues[w] # <<>>
              /\ Head(queues[w]).correlation_id = i
              /\ Head(queues[w]).retry_count = wire_rc[i] + 1

(***************************************************************************)
(* C28: when the step that pops a due item finds the chosen worker queue   *)
(* full, the item is out of the heap and in no other place, the message is *)
(* dropped as "resubmit_full" with its retry count as it was, and the      *)
(* scheduler stays in its drain.                                           *)
(***************************************************************************)
C28_FailedResubmission ==
    [][\A i \in Msgs :
          fate'[i] = Append(fate[i], "resubmit_full")
          => /\ sched_pc = "drain"
             /\ \E t \in Threads : Len(queues[counter[t]]) = WorkerChannelSize
             /\ \E k \in 1 .. Len(heap) :
                   /\ heap[k].msg.correlation_id = i
                   /\ heap' = RemoveAt(heap, k)
             /\ retry_chan' = retry_chan
             /\ queues' = queues
             /\ cur' = cur
             /\ retries' = retries
             /\ (PlacesOf(i))' = {}
             /\ sched_pc' = "drain"]_vars

(***************************************************************************)
(* One resubmission was dropped at a full queue and the same drain went on *)
(* to resubmit the next due item.                                          *)
(***************************************************************************)
C28_Witness ==
    \E i, j \in Msgs :
        /\ i # j
        /\ fate[i] = <<"resubmit_full">>
        /\ retries[i] = 1
        /\ PlacesOf(i) = {}
        /\ sched_pc = "drain"
        /\ heap = <<>>
        /\ retries[j] = 1
        /\ \E w \in Workers :
              /\ queues[w] # <<>>
              /\ queues[w][Len(queues[w])] =
                    [correlation_id |-> j, amount |-> Amount(j), retry_count |-> 1]

(* The Payments in the store channel and in the database. *)
StoredPayments ==
    {store_chan[k] : k \in 1 .. Len(store_chan)} \cup DOMAIN db

(***************************************************************************)
(* C29: a step that pushes a Payment is the end of a call of some worker   *)
(* that succeeded - the message is not sent to retry() - and the Payment   *)
(* has the amount and correlation_id of that worker's message and the      *)
(* processor that was called; a step that sends a message to retry()      *)
(* pushes nothing; and every Payment in the store has the amount its       *)
(* message came with.                                                      *)
(***************************************************************************)
C29_PaymentOfSuccess ==
    /\ [][Len(store_chan') > Len(store_chan) =>
             \E w \in Workers :
                 /\ cur[w] # NoWork
                 /\ cur'[w] = NoWork
                 /\ store_chan' =
                      Append(store_chan,
                             [amount |-> cur[w].msg.amount,
                              correlation_id |-> cur[w].msg.correlation_id,
                              processor |-> cur[w].processor])
                 /\ cur[w].processor \in ProcessorType
                 /\ retries' = retries
                 /\ retry_chan' = retry_chan
                 /\ fate'[cur[w].msg.correlation_id]
                      = Append(fate[cur[w].msg.correlation_id], "stored")]_vars
    /\ [][(\E i \in Msgs : \/ retries'[i] # retries[i]
                             \/ fate'[i] = Append(fate[i], "max_retries"))
             => (pushed' = pushed /\ store_chan' = store_chan)]_vars
    /\ [](\A payment \in StoredPayments :
             /\ payment.correlation_id \in Msgs
             /\ payment.amount = Amount(payment.correlation_id)
             /\ payment.processor \in ProcessorType
             /\ pushed[payment.correlation_id] >= 1)

(* A message failed once, was retried, and its Payment is in the store channel. *)
C29_Witness ==
    \E i \in Msgs :
        /\ retries[i] = 1
        /\ pushed[i] = 1
        /\ fate[i] = <<"stored">>
        /\ \E k \in 1 .. Len(store_chan) :
              store_chan[k] = [amount |-> Amount(i), correlation_id |-> i,
                               processor |-> "Default"]

(* How many times row is in the sequence rows. *)
CountIn(rows, row) == Cardinality({k \in 1 .. Len(rows) : rows[k] = row})

(* How many times row was handed to a database operation. *)
RECURSIVE TimesHanded(_, _)
TimesHanded(ops, row) ==
    IF ops = <<>> THEN 0
    ELSE CountIn(Head(ops).rows, row) + TimesHanded(Tail(ops), row)

(***************************************************************************)
(* C30: the write of an iteration hands over exactly what was drained -    *)
(* one insert_payment for one row, one batch_payments with all rows for    *)
(* more, no operation for none - and leaves the buffer empty, so the next  *)
(* drain starts with an empty buffer; every pushed Payment is in the       *)
(* channel, in the buffer or was handed over, once in all.                 *)
(***************************************************************************)
C30_DrainedIsWritten ==
    /\ [][(store_pc = "write" /\ store_pc' = "sleep") =>
             /\ buffer' = <<>>
             /\ IF Len(buffer) = 0
                THEN handed' = handed /\ db' = db
                ELSE /\ Len(handed') = Len(handed) + 1
                     /\ handed'[Len(handed')].rows = buffer
                     /\ handed'[Len(handed')].op =
                          IF Len(buffer) = 1 THEN "insert_payment"
                          ELSE "batch_payments"]_vars
    /\ [](store_pc = "sleep" => buffer = <<>>)
    /\ [](\A i \in Msgs :
             LET row == Payment(Message(i, 0), "Default")
             IN  /\ CountIn(store_chan, row) + CountIn(buffer, row)
                      + TimesHanded(handed, row) = pushed[i]
                 /\ TimesHanded(handed, row) <= 1)

(* One iteration wrote a single row, a later one a batch of two. *)
C30_Witness ==
    /\ Len(handed) = 2
    /\ handed[1].op = "insert_payment"
    /\ handed[2].op = "batch_payments"
    /\ Len(handed[2].rows) = 2
    /\ store_pc = "sleep"
    /\ buffer = <<>>

(* The connections idle in the publisher's channel. *)
Idle == {conn_pool[k] : k \in 1 .. Len(conn_pool)}

(***************************************************************************)
(* C31: a publish whose write or flush fails shuts its connection down and *)
(* the connection is never in the pool again; the call then takes exactly  *)
(* one from pool_size, spawns exactly one replace() and returns            *)
(* WriteError.  Each replace() dials once, and only a dial that succeeded  *)
(* while the channel had room puts its new connection into the pool.       *)
(***************************************************************************)
C31_WriteFailure ==
    /\ [][\A p \in Publishes :
            /\ (pub[p].pc = "write" /\ pub'[p].pc = "failed") =>
                  /\ pub[p].conn \in conns'.closed
                  /\ conn_pool' = conn_pool
                  /\ pool_size' = pool_size
                  /\ replacing' = replacing
            /\ (pub[p].pc = "failed" /\ pub'[p].pc # "failed") =>
                  /\ pool_size' = pool_size - 1
                  /\ replacing'.dial = replacing.dial + 1
                  /\ replacing'.add = replacing.add
                  /\ conn_pool' = conn_pool
                  /\ pub'[p].pc = "done"
                  /\ pub'[p].result = "WriteError"
                  /\ pub'[p].released = "none"]_vars
    /\ [][replacing'.dial # replacing.dial =>
            \/ /\ replacing'.dial = replacing.dial + 1
               /\ \E p \in Publishes : pub[p].pc = "failed" /\ pub'[p].pc = "done"
            \/ /\ replacing'.dial = replacing.dial - 1
               /\ pub' = pub
               /\ pool_size' = pool_size
               /\ \/ conn_pool' = conn_pool /\ replacing'.add = replacing.add
                  \/ /\ Len(conn_pool) < MAX_CONNS
                     /\ conns'.dialled = conns.dialled + 1
                     /\ conn_pool' = Append(conn_pool, conns'.dialled)
                     /\ replacing'.add = replacing.add + 1]_vars
    /\ [](Idle \cap conns.closed = {})
    /\ [](\A p \in Publishes :
            pub[p].result = "WriteError" =>
               pub[p].conn \in conns.closed /\ pub[p].conn \notin Idle)

(***************************************************************************)
(* The only publish made failed at its write on connection 1; the one      *)
(* replace() it spawned dialled connection 2, which is now in the pool.    *)
(***************************************************************************)
C31_Witness ==
    /\ \E p \in Publishes :
          /\ pub[p].result = "WriteError"
          /\ pub[p].conn = 1
          /\ \A q \in Publishes \ {p} : pub[q].pc = "idle"
    /\ conns = [dialled |-> 2, closed |-> {1}]
    /\ conn_pool = <<2>>
    /\ replacing = [dial |-> 0, add |-> 0]

(***************************************************************************)
(* C32: release() discards the connection of a successful publish only     *)
(* when the pool is full - it holds max_conns idle connections - whatever  *)
(* publishes came before.                                                  *)
(***************************************************************************)
C32_DiscardedOnlyWhenFull ==
    [][\A p \in Publishes :
          (pub[p].pc \in {"release", "send"} /\ pub'[p].pc = "done") =>
              Len(conn_pool) >= MAX_CONNS]_vars

(***************************************************************************)
(* C33: reading a frame that is empty or does not parse takes that frame   *)
(* off the connection and nothing else: no worker queue, no counter, no    *)
(* call in flight and nothing of the scheduler changes, submit reports no  *)
(* error, and the frames behind it stay to be read - the reader of a       *)
(* connection that holds a frame can always read it.                       *)
(***************************************************************************)
C33_BadFrameDropped ==
    /\ [][\A c \in Conns :
            (/\ sock[c] # <<>>
             /\ Head(sock[c]).kind # "msg"
             /\ Len(sock'[c]) < Len(sock[c])) =>
                LET i == Head(sock[c]).correlation_id
                IN  /\ sock'[c] = Tail(sock[c])
                    /\ UNCHANGED <<poolVars, store_chan, db, entered, attempts,
                                   retries, pushed>>
                    /\ fate'[i] = Append(fate[i],
                                         IF Head(sock[c]).kind = "empty"
                                         THEN "empty" ELSE "parse_error")
                    /\ \A j \in Msgs \ {i} : fate'[j] = fate[j]]_vars
    /\ [](\A c \in Conns :
            sock[c] # <<>> => ENABLED (\E t \in Threads : read_producer(c, t)))
    /\ [](\A i \in Msgs :
            (\E k \in 1 .. Len(fate[i]) : fate[i][k] \in {"empty", "parse_error"}) =>
                /\ ~entered[i]
                /\ Len(fate[i]) = 1
                /\ PlacesOf(i) = {}
                /\ attempts[i] = 0)

(***************************************************************************)
(* On one connection a frame that did not parse and an empty frame were    *)
(* read and dropped, and the message sent after them was submitted and     *)
(* its payment stored.                                                     *)
(***************************************************************************)
C33_Witness ==
    /\ fate[1] = <<"parse_error">>
    /\ fate[2] = <<"empty">>
    /\ entered[3]
    /\ fate[3] = <<"stored">>

(***************************************************************************)
(* C34: no task of the worker process waits for room in a queue.  A worker *)
(* that holds no call and has a message queued can take it; a worker whose *)
(* call was answered can go on whatever the answer; the scheduler can take *)
(* the step its loop is at, and in its select a pending inbound item or a  *)
(* due item of the heap ends the wait - also with every worker queue and   *)
(* the scheduler's channel full.                                           *)
(***************************************************************************)
C34_NoTaskWaits ==
    /\ \A w \in Workers :
          /\ (cur[w] = NoWork /\ queues[w] # <<>>) => ENABLED worker_loop(w)
          /\ cur[w] # NoWork =>
                \A status \in env.answers[cur[w].msg.correlation_id] :
                    ENABLED process_response(w, status)
    /\ sched_pc = "top" => ENABLED retry_loop_top
    /\ sched_pc = "drain" => \A t \in Threads : ENABLED retry_loop_drain(t)
    /\ (sched_pc = "select" /\ retry_chan # <<>>) => ENABLED retry_loop_recv
    /\ (sched_pc = "select" /\ \E k \in 1 .. Len(heap) : heap[k].next_attempt <= now)
          => ENABLED retry_loop_timer

(***************************************************************************)
(* Every worker queue and the scheduler's channel are full, and the        *)
(* scheduler went on past a due item whose resubmission found no room.     *)
(***************************************************************************)
C34_Witness ==
    /\ \A w \in Workers : Len(queues[w]) = WorkerChannelSize
    /\ Len(retry_chan) = RetryChannelSize
    /\ \E i \in Msgs : fate[i] = <<"resubmit_full">>

(***************************************************************************)
(* C35: every frame written to a connection the receiver accepted is       *)
(* eventually read and passed to submit, unless reading the connection     *)
(* failed, however many connections are open at once.                      *)
(***************************************************************************)
C35_EveryFrameRead ==
    \A s \in Streams, n \in 1 .. NumFrames :
        (stream[s].written >= n) ~> (stream[s].read >= n \/ stream[s].pc = "failed")

(***************************************************************************)
(* C36: the retry_count a message arrives with is the one retry() counts   *)
(* from.  Every copy of a message carries the count it came with plus the  *)
(* retries made; a message that came with r < MAX_RETRIES is scheduled for *)
(* retry at most MAX_RETRIES - r times; a message that came with           *)
(* MAX_RETRIES or more is attempted at most once, never reaches the        *)
(* scheduler, and after a failed attempt is dropped.                       *)
(***************************************************************************)
C36_WireCountTrusted ==
    \A i \in Msgs :
        /\ \A msg \in QueuedMsgs :
              msg.correlation_id = i => msg.retry_count = wire_rc[i] + retries[i]
        /\ wire_rc[i] < MAX_RETRIES =>
              /\ retries[i] <= MAX_RETRIES - wire_rc[i]
              /\ attempts[i] <= MAX_RETRIES - wire_rc[i] + 1
        /\ wire_rc[i] >= MAX_RETRIES =>
              /\ retries[i] = 0
              /\ attempts[i] <= 1
              /\ ~InChan(i) /\ ~InHeap(i)
              /\ (attempts[i] = 1 /\ PlacesOf(i) = {}) =>
                    fate[i] \in {<<"max_retries">>, <<"stored">>, <<"store_full">>}

(***************************************************************************)
(* A payment that came with 49 was retried once and dropped at its second  *)
(* failed attempt; one that came with 51 was dropped at its first.         *)
(***************************************************************************)
C36_Witness ==
    \E i, j \in Msgs :
        /\ wire_rc[i] = 49 /\ retries[i] = 1 /\ attempts[i] = 2
        /\ fate[i] = <<"max_retries">>
        /\ wire_rc[j] = 51 /\ retries[j] = 0 /\ attempts[j] = 1
        /\ fate[j] = <<"max_retries">>

(***************************************************************************)
(* C37: the heap is a multiset.  An item received from the channel is      *)
(* added to the heap whatever the heap holds, also an item of equal        *)
(* next_attempt; the heap loses an item only by a pop, one item at a time, *)
(* and the popped message is resubmitted (or dropped at a full queue).     *)
(***************************************************************************)
C37_EqualItemsKept ==
    [][(heap' # heap \/ Len(retry_chan') < Len(retry_chan)) =>
          \/ /\ retry_chan # <<>>
             /\ retry_chan' = Tail(retry_chan)
             /\ Len(heap') = Len(heap) + 1
             /\ SeqBag(heap') = SeqBag(heap) (+) SetToBag({Head(retry_chan)})
          \/ \E k \in 1 .. Len(heap) :
                /\ retry_chan' = retry_chan
                /\ Len(heap') = Len(heap) - 1
                /\ SeqBag(heap') (+) SetToBag({heap[k]}) = SeqBag(heap)
                /\ LET i == heap[k].msg.correlation_id
                   IN  \/ \E w \in Workers : queues'[w] = Append(queues[w], heap[k].msg)
                       \/ /\ queues' = queues
                          /\ fate'[i] = Append(fate[i], "resubmit_full")]_vars

(***************************************************************************)
(* Two items of equal next_attempt were in the heap together, and one      *)
(* drain popped both and put both messages into worker queues.             *)
(***************************************************************************)
C37_Witness ==
    /\ Len(popped) = 2
    /\ popped[1] = popped[2]
    /\ heap = <<>>
    /\ \A i \in {1, 2} : retries[i] = 1 /\ fate[i] = <<>> /\ PlacesOf(i) # {}
    /\ \E w \in Workers : queues[w] # <<>>

(* Call p of publish holds a connection: acquired, and not yet sent back or dropped. *)
Owning(p) == pub[p].pc \in {"recv", "write", "failed", "release", "send"}

(***************************************************************************)
(* C38: a connection is held by at most one call of publish at a time, a   *)
(* connection a call holds is not in the pool, and the pool holds no       *)
(* connection twice.                                                       *)
(***************************************************************************)
C38_OneOwner ==
    /\ \A p \in Publishes :
          Owning(p) =>
             /\ pub[p].conn \notin Idle
             /\ \A q \in Publishes \ {p} : Owning(q) => pub[q].conn # pub[p].conn
    /\ Cardinality(Idle) = Len(conn_pool)

(***************************************************************************)
(* Two calls are writing at once, one on a connection taken from the pool  *)
(* and one on a connection it dialled, while the pool holds a third.       *)
(***************************************************************************)
C38_Witness ==
    \E p, q \in Publishes :
        /\ pub[p].pc = "write" /\ pub[p].conn = 1
        /\ pub[q].pc = "write" /\ pub[q].conn = 3
        /\ conn_pool = <<2>>
        /\ conns = [dialled |-> 3, closed |-> {}]

====
